---- MODULE Spec2Model ----
(***************************************************************************)
(* A model of djagger's attribute resolution, operation building, path     *)
(* assembly and document generation.                                       *)
(*                                                                         *)
(* Python values are tagged records, so that values of different Python    *)
(* types can be compared.  A handler (a view class or function) is a       *)
(* record holding its attribute bag; schema declarations (pydantic models  *)
(* and DRF serializers) are records holding their fields.                  *)
(***************************************************************************)
EXTENDS Naturals, Sequences, FiniteSets, TLC

VARIABLES
    view,      \* the handler under construction: its attributes and methods
    routes,    \* the url patterns registered so far: <<[route, view], ...>>
    ret        \* the last call made on the handler and what it returned

vars == <<view, routes, ret>>

----------------------------------------------------------------------------
(* Bounds of the model *)

\* A handler carries at most this many documentation attributes at once.
MaxAttrs == 2

\* The route table holds at most this many url patterns.
MaxRoutes == 2

\* A class-based handler implements at most this many HTTP methods.
MaxMethods == 2

\* A serializer declares at most this many fields.
MaxFields == 2
MaxDepth == 2

----------------------------------------------------------------------------
(* Python values *)

None == [tag |-> "None"]
Str(s) == [tag |-> "str", s |-> s]
Bool(b) == [tag |-> "bool", b |-> b]
Int(i) == [tag |-> "int", i |-> i]
\* a list: items is a sequence of values
List(items) == [tag |-> "list", items |-> items]
\* a dict, in insertion order: kv is a sequence of [k |-> key, v |-> value]
Dict(kv) == [tag |-> "dict", kv |-> kv]
\* a raised exception
Raise(e) == [tag |-> "raise", err |-> e]

IsRaise(v) == v.tag = "raise"

\* Python truthiness: `if x` / `not x`
Truthy(v) ==
    CASE v.tag = "None" -> FALSE
      [] v.tag = "str" -> v.s # ""
      [] v.tag = "bool" -> v.b
      [] v.tag = "int" -> v.i # 0
      [] v.tag = "list" -> v.items # <<>>
      [] v.tag = "dict" -> v.kv # <<>>
      [] OTHER -> TRUE

\* dict helpers (d is the kv sequence of a dict)
DictKeys(d) == [i \in 1..Len(d) |-> d[i].k]
DictHas(d, key) == \E i \in 1..Len(d) : d[i].k = key
DictGet(d, key, default) ==
    IF DictHas(d, key)
    THEN d[CHOOSE i \in 1..Len(d) : d[i].k = key].v
    ELSE default
\* dict.pop(key, default): the remaining kv sequence
DictWithout(d, key) == SelectSeq(d, LAMBDA e : e.k # key)

----------------------------------------------------------------------------
(* Strings *)

\* whether string s starts with string p
StartsWith(s, p) == Len(s) >= Len(p) /\ SubSeq(s, 1, Len(p)) = p

\* p in s
RECURSIVE Contains(_, _)
Contains(s, p) ==
    \/ StartsWith(s, p)
    \/ s # "" /\ Contains(SubSeq(s, 2, Len(s)), p)

\* s.split(sep)[0]: the characters before the first separator
RECURSIVE SplitFirst(_, _)
SplitFirst(s, sep) ==
    IF s = "" \/ SubSeq(s, 1, 1) = sep
    THEN ""
    ELSE SubSeq(s, 1, 1) \o SplitFirst(SubSeq(s, 2, Len(s)), sep)

\* sep.join(s.split(sep)[1:]): the characters after the first separator
RECURSIVE AfterFirst(_, _)
AfterFirst(s, sep) ==
    IF s = "" THEN ""
    ELSE IF SubSeq(s, 1, 1) = sep THEN SubSeq(s, 2, Len(s))
    ELSE AfterFirst(SubSeq(s, 2, Len(s)), sep)

\* s.split(sep)[-1]: the characters after the last separator
RECURSIVE SplitLast(_, _)
SplitLast(s, sep) ==
    IF s = "" \/ SubSeq(s, Len(s), Len(s)) = sep
    THEN ""
    ELSE SplitLast(SubSeq(s, 1, Len(s) - 1), sep) \o SubSeq(s, Len(s), Len(s))

----------------------------------------------------------------------------
(* enums.py: HTTP methods and the catalogue of attribute names *)

\* HttpMethod, in declaration order
HttpMethod == <<"get", "post", "patch", "delete", "put", "options", "head">>

HttpMethodValues == {HttpMethod[i] : i \in 1..Len(HttpMethod)}

\* The member names of the attribute enums, in declaration order
AttrKeys ==
    << "PATH_PARAMS", "QUERY_PARAMS", "HEADER_PARAMS", "COOKIE_PARAMS",
       "BODY_PARAMS", "RESPONSE_SCHEMA", "SUMMARY", "TAGS", "DESCRIPTION",
       "CONSUMES", "PRODUCES", "OPERATION_ID", "DEPRECATED", "EXTERNAL_DOCS",
       "SERVERS", "SECURITY", "DJAGGER_EXCLUDE" >>

\* API-level attribute names
view_attrs ==
    [ PATH_PARAMS     |-> "path_params",
      QUERY_PARAMS    |-> "query_params",
      HEADER_PARAMS   |-> "header_params",
      COOKIE_PARAMS   |-> "cookie_params",
      BODY_PARAMS     |-> "body_params",
      RESPONSE_SCHEMA |-> "response_schema",
      SUMMARY         |-> "summary",
      TAGS            |-> "tags",
      DESCRIPTION     |-> "description",
      CONSUMES        |-> "consumes",
      PRODUCES        |-> "produces",
      OPERATION_ID    |-> "operation_id",
      DEPRECATED      |-> "deprecated",
      EXTERNAL_DOCS   |-> "external_docs",
      SERVERS         |-> "servers",
      SECURITY        |-> "security",
      DJAGGER_EXCLUDE |-> "djagger_exclude" ]

\* Operation-level attribute names: f"{prefix}_{v}"
prefix_attrs(prefix) ==
    [k \in DOMAIN view_attrs |-> prefix \o "_" \o view_attrs[k]]

\* HttpMethod.to_djagger_attribute(): the operation-level enum of a method
to_djagger_attribute(http_method) == prefix_attrs(http_method)

\* The 'in' location of a parameter attribute, by the member's name
location(key) ==
    CASE key = "PATH_PARAMS" -> Str("path")
      [] key = "QUERY_PARAMS" -> Str("query")
      [] key = "HEADER_PARAMS" -> Str("header")
      [] key = "COOKIE_PARAMS" -> Str("cookie")
      [] key = "BODY_PARAMS" -> Str("body")
      [] OTHER -> None

----------------------------------------------------------------------------
(* Handlers: hasattr / getattr on the attribute bag *)

hasattr(v, name) == name \in DOMAIN v.attrs

getattr(v, name, default) == IF hasattr(v, name) THEN v.attrs[name] ELSE default

\* setattr / delattr give the new attribute bag
setattr(attrs, name, value) ==
    [n \in DOMAIN attrs \cup {name} |-> IF n = name THEN value ELSE attrs[n]]

delattr(attrs, name) == [n \in DOMAIN attrs \ {name} |-> attrs[n]]

\* DjaggerViewAttributes.from_view: the operation-level attribute if the
\* handler has it, else the API-level one, else None
from_view(v, attr_name, http_method) ==
    IF \A k \in DOMAIN view_attrs : view_attrs[k] # attr_name
    THEN Raise("ValueError")     \* self.api(attr_name): not an API-level name
    ELSE IF http_method # ""
    THEN getattr(v, http_method \o "_" \o attr_name, getattr(v, attr_name, None))
    ELSE getattr(v, attr_name, None)


----------------------------------------------------------------------------
(* Schema declarations                                                     *)
(*                                                                         *)
(* A pydantic model class is                                               *)
(*   [tag |-> "model", name, doc, fields, schema_extra, module, cls]       *)
(* with fields a sequence of                                               *)
(*   [name, type, default, extra]                                          *)
(* where type is Str(<python type>), ListOf(type) or a nested model,       *)
(* default is Ellipsis                                                     *)
(* for a required field, and extra holds the keys the declaration adds to  *)
(* the property's schema.                                                  *)
(*                                                                         *)
(* A DRF serializer class is [tag |-> "serializer", name, doc, fields]     *)
(* with fields a sequence of [name, kind, required, default, child],       *)
(* default = Empty when none is declared, child the nested serializer of   *)
(* a field that is one.                                                    *)
(***************************************************************************)

Ellipsis == [tag |-> "Ellipsis"]
Empty == [tag |-> "empty"]

\* A class declared in a module is one class wherever it is named; a class
\* create_model makes is a new class at every call, told apart here by the
\* place of the call (cls).
BaseModel(name, doc, fields) ==
    [tag |-> "model", name |-> name, doc |-> doc, fields |-> fields,
     schema_extra |-> <<>>, module |-> "tests", cls |-> <<>>]

ModelField(name, type, default, extra) ==
    [name |-> name, type |-> type, default |-> default, extra |-> extra]

SerializerClass(name, doc, fields) ==
    [tag |-> "serializer", name |-> name, doc |-> doc, fields |-> fields]

SerializerField(name, kind, required, default, child) ==
    [name |-> name, kind |-> kind, required |-> required, default |-> default,
     child |-> child]

\* fields.ChoiceField(choices=...) or fields.MultipleChoiceField(choices=...):
\* field.choices is the mapping of every key to its display name, in the
\* order of the declaration
ChoiceField(name, kind, required, choices) ==
    [name |-> name, kind |-> kind, required |-> required, default |-> Empty,
     child |-> None, choices |-> choices]

\* Enum(name, {"0": v0, "1": v1, ...}): a new class at every call, told
\* apart by the place of the call (cls); it has no fields
Enum(name, values, at) ==
    [tag |-> "enum", name |-> name, values |-> values, fields |-> <<>>,
     module |-> "djagger.serializers", cls |-> at]

\* schema.update(schema_extra) that leaves the schema as pydantic made it
schema_extra_ignored(d, other) == d

\* dict.update(other) on kv sequences: replace the value of a key that is
\* there, append the others
RECURSIVE DictUpdate(_, _)
DictUpdate(d, other) ==
    IF other = <<>> THEN d
    ELSE LET e == Head(other)
             d1 == IF DictHas(d, e.k)
                   THEN [i \in 1..Len(d) |-> IF d[i].k = e.k THEN e ELSE d[i]]
                   ELSE Append(d, e)
         IN DictUpdate(d1, Tail(other))

KV(key, value) == [k |-> Str(key), v |-> value]

\* ref_template.format(model=name)
RefString(ref_template, name) == ref_template.prefix \o name \o ref_template.suffix

\* pydantic's default ref_template, '#/definitions/{model}'
default_ref_template == [prefix |-> "#/definitions/", suffix |-> ""]

\* The JSON type pydantic gives a Python type
json_type(t) ==
    CASE t = "bool" -> Str("boolean")
      [] t = "str" -> Str("string")
      [] t = "int" -> Str("integer")
      [] t \in {"float", "Decimal"} -> Str("number")
      [] OTHER -> Str("null")

\* List[t]
ListOf(t) == [tag |-> "List", items |-> t]

\* The schema of a field's type: a reference for a nested model, an array
\* for a list, else the JSON type
RECURSIVE type_schema(_, _)
type_schema(t, ref_template) ==
    CASE t.tag \in {"model", "enum"} ->
           <<KV("$ref", Str(RefString(ref_template, t.name)))>>
      [] t.tag = "List" ->
           <<KV("type", Str("array")),
             KV("items", Dict(type_schema(t.items, ref_template)))>>
      [] t.tag = "str" -> <<KV("type", json_type(t.s))>>
      [] OTHER -> <<KV("type", Str("null"))>>

\* The models a type names
RECURSIVE type_models(_)
type_models(t) ==
    CASE t.tag \in {"model", "enum"} -> <<t>>
      [] t.tag = "List" -> type_models(t.items)
      [] OTHER -> <<>>

\* The schema of one field: its type, its default and the extra keys of
\* its declaration
field_schema(f, ref_template) ==
    Dict(type_schema(f.type, ref_template)
         \o (IF f.default.tag \in {"Ellipsis", "None"}
             THEN <<>> ELSE <<KV("default", f.default)>>)
         \o f.extra)

\* pydantic's model_process_schema: title, description, properties and
\* required of one model, then Config.schema_extra applied on top
model_process_schema(m, ref_template) ==
    LET s(required) ==
            <<KV("title", Str(m.name))>>
            \o (IF Truthy(m.doc) THEN <<KV("description", m.doc)>> ELSE <<>>)
            \o <<KV("type", Str("object")),
                 KV("properties",
                    Dict([i \in 1..Len(m.fields) |->
                            KV(m.fields[i].name,
                               field_schema(m.fields[i], ref_template))]))>>
            \o (IF required = <<>> THEN <<>>
                ELSE <<KV("required",
                          List([i \in 1..Len(required) |-> Str(required[i].name)]))>>)
    IN DictUpdate(s(SelectSeq(m.fields, LAMBDA f : f.default = Ellipsis)),
                  m.schema_extra)

\* pydantic's enum_process_schema: the values of the members, in the order
\* of their definition
enum_process_schema(e) ==
    <<KV("title", Str(e.name)), KV("description", Str("An enumeration.")),
      KV("enum", List(e.values))>>

\* The definitions a model's schema needs: one entry per nested model or
\* enum, at any depth, one entry per name
RECURSIVE nested_definitions(_, _)
nested_definitions(m, ref_template) ==
    LET RECURSIVE OverModels(_)
        OverModels(ms) ==
            IF ms = <<>> THEN <<>>
            ELSE DictUpdate(
                   DictUpdate(
                     <<KV(Head(ms).name,
                          Dict(IF Head(ms).tag = "enum"
                               THEN enum_process_schema(Head(ms))
                               ELSE model_process_schema(Head(ms), ref_template)))>>,
                     nested_definitions(Head(ms), ref_template)),
                   OverModels(Tail(ms)))
        RECURSIVE Over(_)
        Over(fs) ==
            IF fs = <<>> THEN <<>>
            ELSE DictUpdate(OverModels(type_models(Head(fs).type)), Over(Tail(fs)))
    IN Over(m.fields)

\* pydantic's get_flat_models_from_model: the model and the models under
\* it, as a set of classes
RECURSIVE get_flat_models(_)
get_flat_models(m) ==
    {m} \cup UNION {UNION {get_flat_models(type_models(m.fields[i].type)[j])
                            : j \in 1..Len(type_models(m.fields[i].type))}
                     : i \in 1..Len(m.fields)}

\* model.schema() raises KeyError: pydantic's get_model_name_map names two
\* classes of one __name__ by module and qualified name, and when these are
\* the same too (two classes create_model made under one name), one name
\* is left for the two and the other class has none
schema_KeyError(m) ==
    LET long(a) == a.module \o "__" \o a.name
        conflict(models) ==
            \E a, b \in models : a # b /\ a.name = b.name /\ long(a) = long(b)
    IN conflict(get_flat_models(m))

\* model.schema(ref_template=...): the kv sequence of the schema dict, for
\* a model whose schema() does not raise
schema(m, ref_template) ==
    LET with(definitions) ==
            IF definitions = <<>> THEN <<>>
            ELSE <<KV("definitions", Dict(definitions))>>
    IN model_process_schema(m, ref_template)
       \o with(nested_definitions(m, ref_template))


----------------------------------------------------------------------------
(* serializers.py: SerializerConverter *)

\* field_to_pydantic_args: the keys a DRF field adds to its property;
\* a field that has choices adds them as "enum"
field_to_pydantic_args(f) ==
    <<KV("readOnly", Bool(FALSE)), KV("writeOnly", Bool(FALSE))>>
    \o (IF f.kind \in {"ChoiceField", "MultipleChoiceField"}
        THEN <<KV("enum", Dict(f.choices))>> ELSE <<>>)

\* the display names of the choices
choice_display_names(choices) == [i \in 1..Len(choices) |-> choices[i].v]

\* list(field.choices.keys())
choice_keys(choices) == [i \in 1..Len(choices) |-> choices[i].k]

\* SerializerConverter.from_serializer and infer_field_type: the pydantic
\* model of a serializer instance.  A required field gets (t, ...) and its
\* name is appended to Config.schema_extra["required"]; any other field
\* gets (Optional[t], default), default being ... when none is declared.
\* `at` is the place of the call: the names of the fields from the
\* serializer to_model was called on down to this one.
RECURSIVE from_serializer(_, _)
from_serializer(s, at) ==
    LET infer_field_type(f) ==
            CASE f.kind = "BooleanField" -> Str("bool")
              [] f.kind = "CharField" -> Str("str")
              [] f.kind = "IntegerField" -> Str("int")
              [] f.kind = "FloatField" -> Str("float")
              [] f.kind \in {"ChoiceField", "MultipleChoiceField"} ->
                   Enum(f.name, choice_keys(f.choices), at \o <<f.name>>)
              [] OTHER -> None
        nested(f, child) ==
            IF f.kind = "ListSerializer" THEN ListOf(child) ELSE child
        t(f) == IF f.kind \in {"ListSerializer", "Serializer"}
                THEN nested(f, from_serializer(f.child, at \o <<f.name>>))
                ELSE infer_field_type(f)
        default(f) == IF f.default # Empty THEN f.default ELSE Ellipsis
        create_model_args ==
            [i \in 1..Len(s.fields) |->
               ModelField(s.fields[i].name, t(s.fields[i]),
                          IF s.fields[i].required THEN Ellipsis
                          ELSE default(s.fields[i]),
                          field_to_pydantic_args(s.fields[i]))]
        required(fields) ==
            List([i \in 1..Len(fields) |-> Str(fields[i].name)])
    IN [tag |-> "model", name |-> s.name, doc |-> s.doc,
        fields |-> create_model_args,
        schema_extra |->
          <<KV("required",
               required(SelectSeq(s.fields, LAMBDA f : f.required)))>>,
        module |-> "pydantic.main", cls |-> at]

\* SerializerConverter(s=cls()).to_model() for a serializer class
to_model(s) == from_serializer(s, <<>>)


----------------------------------------------------------------------------
(* openapi.py: Reference, MediaType, Parameter, Response *)

\* isinstance(x, T), by the tag of the value
isinstance(x, tags) == x.tag \in tags

\* Reference.ref_name: the last "/"-separated part of the $ref string
ref_name(ref) == SplitLast(ref, "/")

\* Reference.to_ref: the $ref string of a dict that holds one, else None
to_ref(obj) ==
    LET ref(found) == IF found.tag = "str" THEN found ELSE None
    IN IF obj.tag = "dict" THEN ref(DictGet(obj.kv, Str("$ref"), None))
       ELSE None

\* Reference.dereference: every value that is a reference replaced by the
\* dereferenced definition it names ({} when the name is not defined)
RECURSIVE dereference(_, _)
dereference(obj, definitions) ==
    LET Sub(v) ==
            LET resolved(ref) ==
                    IF ref # None \/ isinstance(v, {"dict", "list"})
                    THEN dereference(
                           IF ref # None
                           THEN DictGet(definitions, Str(ref_name(ref.s)),
                                        Dict(<<>>))
                           ELSE v,
                           definitions)
                    ELSE v
            IN resolved(to_ref(v))
        rebuilt(values) ==
            IF obj.tag = "dict"
            THEN Dict([i \in 1..Len(values) |->
                         [k |-> obj.kv[i].k, v |-> values[i]]])
            ELSE List(values)
        over(values) == rebuilt([i \in 1..Len(values) |-> Sub(values[i])])
    IN IF obj.tag = "dict"
       THEN over([i \in 1..Len(obj.kv) |-> obj.kv[i].v])
       ELSE IF obj.tag = "list" THEN over(obj.items)
       ELSE obj

\* the values that dereference loops over: those of a dict, the items of a
\* list, none of anything else
Children(x) ==
    CASE x.tag = "dict" -> [i \in 1..Len(x.kv) |-> x.kv[i].v]
      [] x.tag = "list" -> x.items
      [] OTHER -> <<>>

\* sys.getrecursionlimit(), scaled down: the calls of dereference that may
\* be active at once before the interpreter raises RecursionError
RecursionLimit == 8

\* One step of a run of Reference.dereference.  The stack holds one frame
\* per active call: the schema of the call, with the values already
\* dereferenced in place, and the index of the value the loop is at.  The
\* loop of the innermost call either calls dereference for a reference's
\* definition ({} when the name is not defined) or for a dict or a list,
\* or goes on to the next value; at the end of the loop the call returns
\* its schema, which the caller stores in place of the value.
dereference_step(run, definitions) ==
    LET stack == run.stack
        top == stack[Len(stack)]
        value == Children(top.obj)[top.i]
        stored(obj, i, v) ==
            IF obj.tag = "dict"
            THEN [obj EXCEPT !.kv[i].v = v]
            ELSE [obj EXCEPT !.items[i] = v]
        returned ==
            IF Len(stack) = 1
            THEN [stack |-> <<>>, status |-> "returned", result |-> top.obj]
            ELSE [run EXCEPT !.stack =
                    SubSeq(stack, 1, Len(stack) - 2)
                    \o <<[obj |-> stored(stack[Len(stack) - 1].obj,
                                         stack[Len(stack) - 1].i, top.obj),
                          i |-> stack[Len(stack) - 1].i + 1]>>]
        called(callee) ==
            IF Len(stack) >= RecursionLimit
            THEN [stack |-> <<>>, status |-> "raised",
                  result |-> Raise("RecursionError")]
            ELSE [run EXCEPT !.stack = Append(stack, [obj |-> callee, i |-> 1])]
        looped(ref) ==
            IF ref # None
            THEN called(DictGet(definitions, Str(ref_name(ref.s)), Dict(<<>>)))
            ELSE IF isinstance(value, {"dict", "list"}) THEN called(value)
            ELSE [run EXCEPT !.stack[Len(stack)].i = top.i + 1]
    IN IF top.i > Len(Children(top.obj)) THEN returned
       ELSE looped(to_ref(value))

\* utils.base_model_set_examples: sets the schema's example from the
\* model's example() classmethod when it has one; gives the model after it
base_model_set_examples(model) == model

\* MediaType._from: the schema of the model with its references inlined
MediaType_from(model) ==
    LET media(sch) ==
            [tag |-> "MediaType",
             schema_ |->
               IF DictHas(sch, Str("definitions"))
               THEN dereference(Dict(DictWithout(sch, Str("definitions"))),
                                DictGet(sch, Str("definitions"), Dict(<<>>)).kv)
               ELSE Dict(sch),
             example |-> None,
             encoding |-> None]
    IN IF model.tag # "model" THEN Raise("AttributeError")   \* no .schema()
       ELSE IF schema_KeyError(model) THEN Raise("KeyError")
       ELSE media(schema(base_model_set_examples(model), default_ref_template))

\* A field declared `bool` or `str` (not Optional) does not take None
NoneIsNotAllowed(v) == v = None

\* Response._from: description is the model's docstring, the one content
\* type is application/json
Response_from(model) ==
    LET response(media, doc) ==
            IF IsRaise(media) THEN media
            ELSE IF NoneIsNotAllowed(doc) THEN Raise("ValidationError")
            ELSE [tag |-> "Response", description |-> doc,
                  content |-> <<KV("application/json", media)>>,
                  headers |-> None]
    IN response(MediaType_from(model),
                IF isinstance(model, {"model", "serializer"}) THEN model.doc
                ELSE Str("builtin doc"))

\* Response.parse_obj of a dict given in place of a model
Response_parse_obj(obj) ==
    LET response(description) ==
            IF description.tag # "str" THEN Raise("ValidationError")
            ELSE [tag |-> "Response", description |-> description,
                  content |-> None, headers |-> None]
    IN response(DictGet(obj.kv, Str("description"), Str("")))

\* Parameter(...) for one property of a parameter schema
Parameter(name, key, props) ==
    LET get(k) == DictGet(props.kv, Str(k), None)
    IN IF \E k \in {"required", "deprecated", "allowReserved", "explode"} :
            NoneIsNotAllowed(get(k)) \/ get(k).tag # "bool"
       THEN Raise("ValidationError")
       ELSE [tag |-> "Parameter",
             name |-> name,
             description |-> get("description"),
             in_ |-> location(key),
             required |-> get("required"),
             deprecated |-> get("deprecated"),
             allowReserved |-> get("allowReserved"),
             style |-> get("style"),
             explode |-> get("explode"),
             schema_ |-> get("schema")]

\* Parameter.to_parameters: one Parameter per property of the model's
\* schema; none for the body attribute.  key is the member's name, attr
\* its value.
to_parameters(model, key, attr) ==
    LET of(params) ==
            IF \E i \in 1..Len(params) : IsRaise(params[i])
            THEN Raise("ValidationError")
            ELSE List(params)
        of_properties(properties) ==
            of([i \in 1..Len(properties) |->
                  Parameter(properties[i].k.s, key, properties[i].v)])
        of_schema(sch) ==
            of_properties(
              DictGet(IF DictHas(sch, Str("definitions"))
                      THEN dereference(
                             Dict(DictWithout(sch, Str("definitions"))),
                             DictGet(sch, Str("definitions"), Dict(<<>>)).kv).kv
                      ELSE sch,
                      Str("properties"), Dict(<<>>)).kv)
    IN IF ~Contains(attr, "_params") THEN Raise("AttributeError")
       ELSE IF ~isinstance(model, {"model"}) THEN Raise("TypeError")
       ELSE IF key = "BODY_PARAMS" THEN List(<<>>)
       ELSE IF schema_KeyError(model) THEN Raise("KeyError")
       ELSE of_schema(schema(model, default_ref_template))

----------------------------------------------------------------------------
(* openapi.py: Operation *)

\* Operation._extract_operation_id
_extract_operation_id(v, http_method) ==
    LET own == getattr(v, to_djagger_attribute(http_method).OPERATION_ID, None)
        operationId == IF ~Truthy(own)
                       THEN getattr(v, view_attrs.OPERATION_ID, None)
                       ELSE own
    IN IF isinstance(operationId, {"str", "None"}) THEN operationId
       ELSE Raise("AssertionError")

\* _extract_tags with the whole module path as the default tag
tags_of_module_path(v, http_method) ==
    LET own == getattr(v, to_djagger_attribute(http_method).TAGS, None)
        api == IF ~Truthy(own) THEN getattr(v, view_attrs.TAGS, None) ELSE own
    IN IF ~Truthy(api) THEN List(<<Str(v.module)>>) ELSE api

\* Operation._extract_tags
_extract_tags(v, http_method) ==
    LET own == getattr(v, to_djagger_attribute(http_method).TAGS, None)
        api == IF ~Truthy(own) THEN getattr(v, view_attrs.TAGS, None) ELSE own
        tags == IF ~Truthy(api) THEN List(<<Str(SplitFirst(v.module, "."))>>)
                ELSE api
    IN IF Truthy(tags)
          /\ (~isinstance(tags, {"list"})
              \/ \E i \in 1..Len(tags.items) : ~isinstance(tags.items[i], {"str"}))
       THEN Raise("AssertionError")
       ELSE tags

\* _extract_summary with the two levels the other way round: the API-level
\* summary first, the operation-level one when that is falsy
summary_api_level_first(v, http_method) ==
    LET api == getattr(v, view_attrs.SUMMARY, None)
        own == IF ~Truthy(api)
               THEN getattr(v, to_djagger_attribute(http_method).SUMMARY, None)
               ELSE api
        summary == IF ~Truthy(own) THEN Str(v.name) ELSE own
    IN IF isinstance(summary, {"str", "None"}) THEN summary
       ELSE Raise("AssertionError")

\* Operation._extract_summary
_extract_summary(v, http_method) ==
    LET own == getattr(v, to_djagger_attribute(http_method).SUMMARY, None)
        api == IF ~Truthy(own) THEN getattr(v, view_attrs.SUMMARY, None) ELSE own
        summary == IF ~Truthy(api) THEN Str(v.name) ELSE api
    IN IF isinstance(summary, {"str", "None"}) THEN summary
       ELSE Raise("AssertionError")

\* Operation._extract_description
_extract_description(v, http_method) ==
    LET own == getattr(v, to_djagger_attribute(http_method).DESCRIPTION, None)
        api == IF ~Truthy(own) THEN getattr(v, view_attrs.DESCRIPTION, None)
               ELSE own
        description == IF ~Truthy(api) THEN v.doc ELSE api
    IN IF isinstance(description, {"str", "None"}) THEN description
       ELSE Raise("AssertionError")

\* Operation._extract_deprecated
_extract_deprecated(v, http_method) ==
    LET own == getattr(v, to_djagger_attribute(http_method).DEPRECATED, None)
        deprecated == IF ~Truthy(own)
                      THEN getattr(v, view_attrs.DEPRECATED, None)
                      ELSE own
    IN IF isinstance(deprecated, {"bool", "None"}) THEN deprecated
       ELSE Raise("AssertionError")

\* ExternalDocs.parse_obj / Server.parse_obj: the object must be a mapping
\* with a string under 'url'
parse_obj_with_url(obj) ==
    IF isinstance(obj, {"dict"})
    THEN IF isinstance(DictGet(obj.kv, Str("url"), None), {"str"})
         THEN obj
         ELSE Raise("ValidationError")
    ELSE Raise("ValidationError")

\* Operation._extract_external_docs
_extract_external_docs(v, http_method) ==
    LET own == getattr(v, to_djagger_attribute(http_method).EXTERNAL_DOCS, None)
        externalDocs == IF ~Truthy(own)
                        THEN getattr(v, view_attrs.EXTERNAL_DOCS, None)
                        ELSE own
    IN IF ~isinstance(externalDocs, {"dict", "None"}) THEN Raise("AssertionError")
       ELSE IF Truthy(externalDocs) THEN parse_obj_with_url(externalDocs)
       ELSE externalDocs

\* Operation._extract_security on a new Operation (whose servers, which the
\* assertion tests, are None): the items of a truthy value must be mappings
\* of strings to lists of strings
_extract_security(v, http_method) ==
    LET own == getattr(v, to_djagger_attribute(http_method).SECURITY, None)
        security == IF ~Truthy(own)
                    THEN getattr(v, view_attrs.SECURITY, None)
                    ELSE own
        strings(x) ==
            /\ isinstance(x, {"list"})
            /\ \A j \in 1..Len(x.items) : isinstance(x.items[j], {"str"})
        requirement(x) ==
            /\ isinstance(x, {"dict"})
            /\ \A j \in 1..Len(x.kv) :
                  isinstance(x.kv[j].k, {"str"}) /\ strings(x.kv[j].v)
    IN IF ~Truthy(security) THEN security
       ELSE IF ~isinstance(security, {"list", "dict", "str"}) THEN Raise("TypeError")
       ELSE IF isinstance(security, {"dict", "str"}) THEN Raise("AssertionError")
       ELSE IF \A i \in 1..Len(security.items) : requirement(security.items[i])
       THEN security
       ELSE Raise("AssertionError")

\* Operation._extract_servers
_extract_servers(v, http_method) ==
    LET own == getattr(v, to_djagger_attribute(http_method).SERVERS, None)
        servers == IF ~Truthy(own)
                   THEN getattr(v, view_attrs.SERVERS, None)
                   ELSE own
        parsed(items) == [i \in 1..Len(items) |-> parse_obj_with_url(items[i])]
    IN IF ~isinstance(servers, {"list", "None"}) THEN Raise("AssertionError")
       ELSE IF ~Truthy(servers) THEN servers
       ELSE IF \E i \in 1..Len(servers.items) : IsRaise(parsed(servers.items)[i])
       THEN Raise("ValidationError")
       ELSE List(parsed(servers.items))

\* Operation._extract_parameters: the parameters of every *_params
\* attribute, in the order of the enum's members; the operation-level
\* attribute if the handler has it, else the API-level one
RECURSIVE extract_parameters_from(_, _, _, _)
extract_parameters_from(v, http_method, i, parameters) ==
    LET more(params) ==
            IF IsRaise(params) THEN params
            ELSE extract_parameters_from(v, http_method, i + 1,
                                         parameters \o params.items)
        convert(request_schema) ==
            IF isinstance(request_schema, {"serializer"})
            THEN to_model(request_schema) ELSE request_schema
        of(key, attr, api_level_attr_value) ==
            more(IF (~hasattr(v, attr) /\ ~hasattr(v, api_level_attr_value))
                    \/ ~Contains(attr, "_params")
                 THEN List(<<>>)      \* continue
                 ELSE to_parameters(
                        convert(IF hasattr(v, attr) THEN getattr(v, attr, None)
                                ELSE getattr(v, api_level_attr_value, None)),
                        key, attr))
        at(attr) == of(AttrKeys[i], attr, AfterFirst(attr, "_"))
    IN IF i > Len(AttrKeys) THEN List(parameters)
       ELSE at(to_djagger_attribute(http_method)[AttrKeys[i]])

_extract_parameters(v, http_method) ==
    extract_parameters_from(v, http_method, 1, <<>>)

\* Unpacking `for k, v in mapping`, which iterates the keys of the mapping:
\* a key that is a two-character string unpacks into two characters, that
\* are neither a dict nor a model; any other key does not unpack
unpack_key(key) ==
    IF key.tag = "str" /\ Len(key.s) # 2 THEN Raise("ValueError")
    ELSE Raise("TypeError")

\* Operation._extract_request_body: the request body of the operation-level
\* body attribute, and the handler after the call (the reserved keys
\* `description` and `required` are popped from the handler's own dict)
_extract_request_body(v, http_method) ==
    LET of_model(media, doc) ==
            IF IsRaise(media) THEN media
            ELSE [tag |-> "RequestBody",
                  description |-> doc,
                  content |-> <<KV("application/json", media)>>,
                  required |-> Bool(FALSE)]
        of_mapping(name, body, popped) ==
            [requestBody |->
               IF popped # <<>> THEN unpack_key(popped[1].k)
               ELSE [tag |-> "RequestBody",
                     description |-> DictGet(body, Str("description"), Str("")),
                     content |-> <<>>,
                     required |-> DictGet(body, Str("required"), Bool(FALSE))],
             view |-> [v EXCEPT !.attrs = setattr(v.attrs, name, Dict(popped))]]
        of(name, request_body_attr) ==
            IF ~Truthy(request_body_attr)
            THEN [requestBody |-> None, view |-> v]
            ELSE IF isinstance(request_body_attr, {"model"})
            THEN [requestBody |-> of_model(MediaType_from(request_body_attr),
                                           request_body_attr.doc),
                  view |-> v]
            ELSE IF isinstance(request_body_attr, {"dict"})
            THEN of_mapping(name, request_body_attr.kv,
                            DictWithout(DictWithout(request_body_attr.kv,
                                                    Str("description")),
                                        Str("required")))
            ELSE [requestBody |-> Raise("TypeError"), view |-> v]
        at(name) == of(name, getattr(v, name, None))
    IN at(to_djagger_attribute(http_method).BODY_PARAMS)

\* no method is ever excluded
never_excluded(v, http_method) == FALSE

\* The exclude check of Operation._from: <http_method>_djagger_exclude is
\* set and truthy
excluded(v, http_method) ==
    Truthy(getattr(v, to_djagger_attribute(http_method).DJAGGER_EXCLUDE,
                   Bool(FALSE)))

\* Operation._extract_responses over the items of a mapping, in order
RECURSIVE responses_of_mapping(_, _)
responses_of_mapping(items, responses) ==
    LET add(status_code, response) ==
            IF ~isinstance(status_code, {"str"}) THEN Raise("ValueError")
            ELSE IF IsRaise(response) THEN response
            ELSE responses_of_mapping(
                   Tail(items),
                   DictUpdate(responses, <<[k |-> status_code, v |-> response]>>))
        of(model) ==
            IF isinstance(model, {"dict"}) THEN Response_parse_obj(model)
            ELSE Response_from(IF isinstance(model, {"serializer"})
                               THEN to_model(model) ELSE model)
    IN IF items = <<>> THEN Dict(responses)
       ELSE add(Head(items).k, of(Head(items).v))

\* Operation._extract_responses: the operation-level response attribute,
\* the API-level one when that is None; one '200' response for a model or
\* a serializer, one response per key for a mapping
_extract_responses(v, http_method) ==
    LET single(response) ==
            IF IsRaise(response) THEN response
            ELSE Dict(<<KV("200", response)>>)
        of(response_schema) ==
            IF isinstance(response_schema, {"model", "serializer"})
            THEN single(Response_from(
                          IF isinstance(response_schema, {"serializer"})
                          THEN to_model(response_schema) ELSE response_schema))
            ELSE IF isinstance(response_schema, {"dict"})
            THEN responses_of_mapping(response_schema.kv, <<>>)
            ELSE Dict(<<>>)
        resolve(own) ==
            of(IF own = None THEN getattr(v, view_attrs.RESPONSE_SCHEMA, None)
               ELSE own)
    IN resolve(getattr(v, to_djagger_attribute(http_method).RESPONSE_SCHEMA, None))

\* The extractions of Operation._from: the operation with its tags,
\* operationId, summary, description, requestBody, parameters and
\* responses extracted in that order; and the handler after the call
extract_operation(v, http_method) ==
    LET build(tags, operationId, summary, description, body, parameters,
              responses) ==
            IF IsRaise(tags) THEN [result |-> tags, view |-> v]
            ELSE IF IsRaise(operationId) THEN [result |-> operationId, view |-> v]
            ELSE IF IsRaise(summary) THEN [result |-> summary, view |-> v]
            ELSE IF IsRaise(description) THEN [result |-> description, view |-> v]
            ELSE IF IsRaise(body.requestBody)
            THEN [result |-> body.requestBody, view |-> body.view]
            ELSE IF IsRaise(parameters)
            THEN [result |-> parameters, view |-> body.view]
            ELSE IF IsRaise(responses)
            THEN [result |-> responses, view |-> body.view]
            ELSE [result |->
                    [tag |-> "Operation",
                     tags |-> tags,
                     summary |-> summary,
                     description |-> description,
                     externalDocs |-> None,
                     operationId |-> operationId,
                     parameters |-> parameters,
                     requestBody |-> body.requestBody,
                     responses |-> responses,
                     deprecated |-> Bool(FALSE),
                     security |-> None,
                     servers |-> None],
                  view |-> body.view]
        after(body) ==
            build(_extract_tags(v, http_method),
                  _extract_operation_id(v, http_method),
                  _extract_summary(v, http_method),
                  _extract_description(v, http_method),
                  body,
                  _extract_parameters(body.view, http_method),
                  _extract_responses(body.view, http_method))
    IN after(_extract_request_body(v, http_method))

\* the exclude check after the extractions in place of before them
from_with_exclude_last(v, http_method) ==
    LET checked(made) ==
            IF IsRaise(made.result) THEN made
            ELSE IF excluded(v, http_method)
            THEN [result |-> None, view |-> made.view]
            ELSE made
    IN checked(extract_operation(v, http_method))

\* Operation._from: None for an excluded operation, before anything is
\* extracted; else the operation of the extractions
Operation_from(v, http_method) ==
    IF excluded(v, http_method) THEN [result |-> None, view |-> v]
    ELSE extract_operation(v, http_method)

----------------------------------------------------------------------------
(* openapi.py: Path *)

\* pydantic's validation of an Optional[str] field: None and strings pass,
\* numbers (booleans with them) are converted, anything else is an error
str_validator(x) ==
    CASE isinstance(x, {"None", "str"}) -> x
      [] isinstance(x, {"bool"}) -> Str(IF x.b THEN "True" ELSE "False")
      [] OTHER -> Raise("ValidationError")

\* str.lower() of a method name
lower(st) ==
    CASE st = "GET" -> "get"
      [] st = "POST" -> "post"
      [] st = "PATCH" -> "patch"
      [] st = "DELETE" -> "delete"
      [] st = "PUT" -> "put"
      [] st = "OPTIONS" -> "options"
      [] st = "HEAD" -> "head"
      [] OTHER -> st

\* The loops of Path.create over a list of entries [method, skip_empty,
\* strict], in order: the operation of each method is set on the path
\* unless it is excluded or, when skip_empty, has no responses.  An entry
\* that is not a method's value raises ValueError when strict, and is
\* skipped otherwise.
RECURSIVE create_operations(_, _, _)
create_operations(path, v, entries) ==
    LET set(entry, made) ==
            IF IsRaise(made.result) THEN made
            ELSE create_operations(
                   IF made.result = None
                      \/ (entry.skip_empty /\ ~Truthy(made.result.responses))
                   THEN path
                   ELSE [path EXCEPT ![entry.method] = made.result],
                   made.view, Tail(entries))
        of(entry) ==
            set(entry,
                IF entry.method \in HttpMethodValues
                THEN Operation_from(v, entry.method)
                ELSE [result |-> IF entry.strict THEN Raise("ValueError") ELSE None,
                      view |-> v])
    IN IF entries = <<>> THEN [result |-> path, view |-> v]
       ELSE of(Head(entries))

\* Path.create: for a class, one operation per HTTP method the class
\* implements; for a function, one per key of `actions` that is a method
\* and one per entry of `djagger_http_methods`
Path_create(v) ==
    LET entries(methods, skip_empty, strict) ==
            [i \in 1..Len(methods) |->
               [method |-> methods[i], skip_empty |-> skip_empty,
                strict |-> strict]]
        implemented == SelectSeq(HttpMethod, LAMBDA m : m \in v.methods)
        actions == IF v.actions = None THEN <<>>
                   ELSE [i \in 1..Len(v.actions.kv) |-> v.actions.kv[i].k.s]
        http_methods ==
            IF v.djagger_http_methods = None THEN <<>>
            ELSE [i \in 1..Len(v.djagger_http_methods.items) |->
                    lower(v.djagger_http_methods.items[i])]
        validated(summary, description) ==
            IF IsRaise(summary) \/ IsRaise(description)
            THEN [result |-> Raise("ValidationError"), view |-> v]
            ELSE create_operations(
                   [tag |-> "Path", summary |-> summary,
                    description |-> description,
                    get |-> None, put |-> None, post |-> None,
                    delete |-> None, options |-> None, head |-> None,
                    patch |-> None, trace |-> None],
                   v,
                   IF v.kind = "class" THEN entries(implemented, FALSE, TRUE)
                   ELSE IF v.kind = "function"
                   THEN entries(actions, TRUE, FALSE)
                        \o entries(http_methods, TRUE, TRUE)
                   ELSE <<>>)
    IN validated(str_validator(getattr(v, "summary", Str(""))),
                 str_validator(getattr(v, "description", Str(""))))

----------------------------------------------------------------------------
(* utils.py: the url patterns of a resolver *)

\* s with every occurrence of the characters removed: s.replace(c, "")
RECURSIVE Remove(_, _)
Remove(s, chars) ==
    IF s = "" THEN ""
    ELSE (IF SubSeq(s, 1, 1) \in chars THEN "" ELSE SubSeq(s, 1, 1))
         \o Remove(SubSeq(s, 2, Len(s)), chars)

\* the characters of [a-zA-Z0-9\-\_]
NameChars ==
    LET cs == "abcdefghijklmnopqrstuvwxyzABCDEFGHIJKLMNOPQRSTUVWXYZ0123456789-_"
    IN {SubSeq(cs, i, i) : i \in 1..Len(cs)}

\* re.sub(r'\(\?P<([a-zA-Z0-9\-\_]*)>.*\)', r'{\1}', s): the first named
\* group, and everything up to the last ")" of s, becomes {name}
RECURSIVE sub_named_group(_)
sub_named_group(s) ==
    LET rest == SubSeq(s, 5, Len(s))
        name == SplitFirst(rest, ">")
        after == AfterFirst(rest, ">")
        matches ==
            /\ StartsWith(s, "(?P<")
            /\ Contains(rest, ">")
            /\ \A i \in 1..Len(name) : SubSeq(name, i, i) \in NameChars
            /\ Contains(after, ")")
    IN IF s = "" THEN ""
       ELSE IF matches THEN "{" \o name \o "}" \o SplitLast(after, ")")
       ELSE SubSeq(s, 1, 1) \o sub_named_group(SubSeq(s, 2, Len(s)))

\* clean_regex_string
clean_regex_string(s) ==
    Remove(sub_named_group(Remove(s, {"^", "\\"})), {"?", "$"})

\* django's _route_to_regex(route)[0]: "^", then the text of the route
\* with every <converter:parameter> as a named group of the converter's
\* regex
RECURSIVE _route_to_regex(_)
_route_to_regex(route) ==
    LET spec == SplitFirst(AfterFirst(route, "<"), ">")
        converter == IF Contains(spec, ":") THEN SplitFirst(spec, ":") ELSE "str"
        parameter == IF Contains(spec, ":") THEN AfterFirst(spec, ":") ELSE spec
        regex == CASE converter = "int" -> "[0-9]+"
                   [] converter = "slug" -> "[-a-zA-Z0-9_]+"
                   [] OTHER -> "[^/]+"
        rest == _route_to_regex(AfterFirst(AfterFirst(route, "<"), ">"))
    IN IF ~Contains(route, "<") THEN "^" \o route
       ELSE "^" \o SplitFirst(route, "<")
            \o "(?P<" \o parameter \o ">" \o regex \o ")"
            \o SubSeq(rest, 2, Len(rest))

RegexPattern(regex) == [tag |-> "RegexPattern", _regex |-> regex]
RoutePattern(route) == [tag |-> "RoutePattern", _route |-> route]
URLPattern(pattern, name) ==
    [tag |-> "URLPattern", pattern |-> pattern, name |-> name]
URLResolver(pattern, url_patterns) ==
    [tag |-> "URLResolver", pattern |-> pattern, url_patterns |-> url_patterns]

\* get_pattern_str: the regex of a pattern
get_pattern_str(pattern) ==
    IF pattern.tag = "RegexPattern" THEN pattern._regex
    ELSE _route_to_regex(pattern._route)

\* the loop of list_urls over resolver.url_patterns from the i-th on, with
\* the prefix and the results so far: a nested resolver sets the prefix to
\* its own pattern and adds the urls listed under it with that prefix; a
\* pattern adds (cleaned prefix + pattern, url)
RECURSIVE list_urls_from(_, _, _, _)
list_urls_from(urls, i, prefix, results) ==
    LET nested(own) ==
            [prefix |-> own,
             results |-> results \o list_urls_from(urls[i].url_patterns, 1, own, <<>>)]
        one(own) ==
            [prefix |-> prefix,
             results |-> Append(results,
                                <<clean_regex_string(prefix \o own), urls[i]>>)]
        next(step) == list_urls_from(urls, i + 1, step.prefix, step.results)
    IN IF i > Len(urls) THEN results
       ELSE next(IF urls[i].tag = "URLResolver"
                 THEN nested(get_pattern_str(urls[i].pattern))
                 ELSE one(get_pattern_str(urls[i].pattern)))

\* list_urls(resolver, prefix)
list_urls(resolver, prefix) ==
    list_urls_from(resolver.url_patterns, 1, prefix, <<>>)

----------------------------------------------------------------------------
(* enums.py: ViewAttributes; decorators.py: schema *)

\* ViewAttributes.attr_list: the API-level attribute names and the
\* operation-level ones of every HTTP method
attr_list ==
    {view_attrs[k] : k \in DOMAIN view_attrs}
    \cup {prefix_attrs(m)[k] : m \in HttpMethodValues, k \in DOMAIN view_attrs}

\* the decorator that sets every keyword it is given
schema_setting_every_keyword(methods, attrs, f) ==
    LET set == [f EXCEPT !.attrs =
                  [n \in DOMAIN @ \cup DOMAIN attrs |->
                     IF n \in DOMAIN attrs THEN attrs[n] ELSE @[n]]]
    IN IF \E i \in 1..Len(methods) : lower(methods[i]) \notin HttpMethodValues
       THEN [result |-> Raise("ValueError"), view |-> set]
       ELSE [result |-> [set EXCEPT !.djagger_http_methods = List(methods)],
             view |-> [set EXCEPT !.djagger_http_methods = List(methods)]]

\* schema(methods, **attrs)(f): the keywords that are in attr_list are set
\* on f, the others skipped with a warning; then ValueError if a method,
\* lower-cased, is not an HttpMethod, else f gets djagger_http_methods and
\* is returned.  `view` is f after the call.
decorators_schema(methods, attrs, f) ==
    LET known == DOMAIN attrs \cap attr_list
        set == [f EXCEPT !.attrs =
                  [n \in DOMAIN @ \cup known |->
                     IF n \in known THEN attrs[n] ELSE @[n]]]
    IN IF \E i \in 1..Len(methods) : lower(methods[i]) \notin HttpMethodValues
       THEN [result |-> Raise("ValueError"), view |-> set]
       ELSE [result |-> [set EXCEPT !.djagger_http_methods = List(methods)],
             view |-> [set EXCEPT !.djagger_http_methods = List(methods)]]

----------------------------------------------------------------------------
(* openapi.py: Document *)

\* path.dict(by_alias=True, exclude_none=True), the path's own level: the
\* fields that are not None, in the order of their declaration (the
\* operations are held as they were built)
Path_dict(path) ==
    LET names == <<"summary", "description", "get", "put", "post", "delete",
                   "options", "head", "patch", "trace">>
        present == SelectSeq(names, LAMBDA n : path[n] # None)
    IN Dict([i \in 1..Len(present) |-> KV(present[i], path[present[i]])]
            \o <<KV("parameters", List(<<>>))>>)

\* `getattr(path, 'get', None) or ... or getattr(path, 'delete', None)`
documented(path) ==
    \E m \in {"get", "post", "put", "patch", "delete"} : path[m] # None

\* no view is left out of the document
keeps_every_view(v) == FALSE

\* `hasattr(view, 'djagger_exclude')` and `view.djagger_exclude`
view_excluded(v) ==
    /\ hasattr(v, view_attrs.DJAGGER_EXCLUDE)
    /\ Truthy(getattr(v, view_attrs.DJAGGER_EXCLUDE, None))

\* The loop of openapi's Document.generate over the url patterns: the path
\* of every view that is not excluded, under "/" + route, if it is
\* documented; an error of Path.create ends the loop.  Gives the paths and
\* the url patterns with their views as the calls left them: a view is one
\* object in every url pattern that has it.
RECURSIVE openapi_paths(_, _, _)
openapi_paths(url_patterns, i, paths) ==
    LET left(v) ==
            [j \in 1..Len(url_patterns) |->
               IF url_patterns[j].view = url_patterns[i].view
               THEN [url_patterns[j] EXCEPT !.view = v] ELSE url_patterns[j]]
        more(created) ==
            IF IsRaise(created.result)
            THEN [result |-> created.result, url_patterns |-> left(created.view)]
            ELSE openapi_paths(
                   left(created.view), i + 1,
                   IF created.result # None /\ documented(created.result)
                   THEN DictUpdate(paths,
                                   <<KV("/" \o url_patterns[i].route,
                                        Path_dict(created.result))>>)
                   ELSE paths)
        of(v) ==
            more(IF view_excluded(v) THEN [result |-> None, view |-> v]  \* continue
                 ELSE Path_create(v))
    IN IF i > Len(url_patterns)
       THEN [result |-> Dict(paths), url_patterns |-> url_patterns]
       ELSE of(url_patterns[i].view)

\* openapi's Document.generate: document.dict(by_alias=True,
\* exclude_none=True) of the document of the paths
OpenapiDocument_generate(url_patterns) ==
    LET document(out) ==
            [result |->
               IF IsRaise(out.result) THEN out.result
               ELSE [tag |-> "Document", openapi |-> "3.0.0",
                     servers |-> List(<<>>), paths |-> out.result,
                     security |-> List(<<>>), tags |-> List(<<>>)],
             url_patterns |-> out.url_patterns]
    IN document(openapi_paths(url_patterns, 1, <<>>))

----------------------------------------------------------------------------
(* utils.py and swagger.py: the Swagger 2.0 document *)

\* model.schema(ref_template=...) with the suffixed template, the keys of
\* its definitions left as pydantic names them
schema_of_suffixed_template(model, suffix) ==
    schema(model, [prefix |-> "#/definitions/", suffix |-> "-" \o suffix])

\* extract_unique_schema: the schema of the model under a ref_template that
\* ends in "-" and the suffix, the keys of its definitions renamed to end
\* the same way.  suffix is uuid.uuid4().hex: a string no other call has.
extract_unique_schema(model, suffix) ==
    LET renamed(definitions) ==
            [i \in 1..Len(definitions) |->
               [k |-> Str(definitions[i].k.s \o "-" \o suffix),
                v |-> definitions[i].v]]
        of(sch) ==
            [i \in 1..Len(sch) |->
               IF sch[i].k = Str("definitions")
               THEN [k |-> sch[i].k, v |-> Dict(renamed(sch[i].v.kv))]
               ELSE sch[i]]
    IN of(schema(model, [prefix |-> "#/definitions/", suffix |-> "-" \o suffix]))

\* model.__doc__ if model.__doc__ else ""
doc_or_empty(x) == IF Truthy(x.doc) THEN x.doc ELSE Str("")

\* swagger.Parameter(...)
SwaggerParameter(name, description, in_, required, type_, schema_) ==
    IF \/ description.tag # "str"
       \/ required.tag \notin {"bool", "None"}
       \/ type_.tag \notin {"str", "None"}
    THEN Raise("ValidationError")
    ELSE [tag |-> "Parameter", name |-> name, description |-> description,
          in_ |-> in_, required |-> required, type_ |-> type_,
          schema_ |-> schema_]

\* swagger.Parameter.to_parameters: one body Parameter that holds the
\* schema of the model, or one Parameter per property for the other
\* attributes
SwaggerParameter_to_parameters(model, key, attr, suffix) ==
    LET of(params) ==
            IF \E i \in 1..Len(params) : IsRaise(params[i])
            THEN Raise("ValidationError")
            ELSE List(params)
        get(props, k, default) == DictGet(props.kv, Str(k), default)
        of_properties(properties) ==
            of([i \in 1..Len(properties) |->
                  SwaggerParameter(properties[i].k.s,
                                   get(properties[i].v, "description", Str("")),
                                   location(key),
                                   get(properties[i].v, "required", Bool(TRUE)),
                                   get(properties[i].v, "type", Str("")),
                                   None)])
    IN IF key = "RESPONSE_SCHEMA" THEN List(<<>>)
       ELSE IF ~Contains(attr, "_params") THEN Raise("AttributeError")
       ELSE IF ~isinstance(model, {"model"}) THEN Raise("TypeError")
       ELSE IF schema_KeyError(model) THEN Raise("KeyError")
       ELSE IF key = "BODY_PARAMS"
       THEN of(<<SwaggerParameter("body", doc_or_empty(model), Str("body"),
                                  Bool(TRUE), None,
                                  Dict(extract_unique_schema(model, suffix)))>>)
       ELSE of_properties(DictGet(extract_unique_schema(model, suffix),
                                  Str("properties"), Dict(<<>>)).kv)

\* swagger.Response._from
SwaggerResponse_from(model, suffix) ==
    IF ~isinstance(model, {"model"}) THEN Raise("ValueError")
    ELSE IF schema_KeyError(model) THEN Raise("KeyError")
    ELSE [tag |-> "Response", description |-> doc_or_empty(model),
          schema_ |-> Dict(extract_unique_schema(model, suffix))]


\* EndPoint._extract_summary, _extract_description, _extract_tags,
\* _extract_consumes and _extract_produces: the operation-level attribute
\* if the handler has it, else the API-level one, else the default; an
\* attribute of another type is a TypeError
EndPoint_extract(v, http_method, key, types, default) ==
    LET checked(x) == IF isinstance(x, types) THEN x ELSE Raise("TypeError")
    IN IF hasattr(v, to_djagger_attribute(http_method)[key])
       THEN checked(getattr(v, to_djagger_attribute(http_method)[key], None))
       ELSE IF hasattr(v, view_attrs[key])
       THEN checked(getattr(v, view_attrs[key], None))
       ELSE default

\* EndPoint._extract_parameters: as Operation._extract_parameters, with
\* the parameters of swagger.Parameter; uid names the calls of one
\* endpoint apart from every other's
RECURSIVE EndPoint_parameters_from(_, _, _, _, _)
EndPoint_parameters_from(v, http_method, uid, i, parameters) ==
    LET more(params) ==
            IF IsRaise(params) THEN params
            ELSE EndPoint_parameters_from(v, http_method, uid, i + 1,
                                          parameters \o params.items)
        convert(request_schema) ==
            IF isinstance(request_schema, {"serializer"})
            THEN to_model(request_schema) ELSE request_schema
        of(key, attr, api_level_attr_value) ==
            more(IF (~hasattr(v, attr) /\ ~hasattr(v, api_level_attr_value))
                    \/ ~Contains(attr, "_params")
                 THEN List(<<>>)      \* continue
                 ELSE SwaggerParameter_to_parameters(
                        convert(IF hasattr(v, attr) THEN getattr(v, attr, None)
                                ELSE getattr(v, api_level_attr_value, None)),
                        key, attr, uid \o attr))
        at(attr) == of(AttrKeys[i], attr, AfterFirst(attr, "_"))
    IN IF i > Len(AttrKeys) THEN List(parameters)
       ELSE at(to_djagger_attribute(http_method)[AttrKeys[i]])

EndPoint_extract_parameters(v, http_method, uid) ==
    EndPoint_parameters_from(v, http_method, uid, 1, <<>>)

\* EndPoint._extract_responses: the operation-level response schema, or
\* the API-level one if that is None; "200" for a model or a serializer,
\* one response per key for a dict
EndPoint_extract_responses(v, http_method, uid) ==
    LET convert(x) == IF isinstance(x, {"serializer"}) THEN to_model(x) ELSE x
        single(response) ==
            IF IsRaise(response) THEN response
            ELSE Dict(<<KV("200", response)>>)
        wrap(kv, made) ==
            IF \E i \in 1..Len(made) : IsRaise(made[i])
            THEN Raise("ValueError")
            ELSE Dict([i \in 1..Len(kv) |-> [k |-> kv[i].k, v |-> made[i]]])
        of_mapping(kv) ==
            wrap(kv, [i \in 1..Len(kv) |->
                        IF kv[i].k.tag # "str" THEN Raise("ValueError")
                        ELSE SwaggerResponse_from(
                               convert(kv[i].v),
                               uid \o http_method \o ":" \o kv[i].k.s)])
        of(response_schema) ==
            IF isinstance(response_schema, {"model", "serializer"})
            THEN single(SwaggerResponse_from(convert(response_schema),
                                             uid \o http_method \o ":200"))
            ELSE IF isinstance(response_schema, {"dict"})
            THEN of_mapping(response_schema.kv)
            ELSE Dict(<<>>)
        fallback(own) ==
            IF own = None THEN getattr(v, view_attrs.RESPONSE_SCHEMA, None)
            ELSE own
    IN of(fallback(getattr(v, to_djagger_attribute(http_method).RESPONSE_SCHEMA,
                           None)))

\* EndPoint._from: None if the method is excluded, else the endpoint of
\* the extracted attributes; the first error of an extractor is raised
EndPoint_from(v, http_method, uid) ==
    LET endpoint(tags, summary, consumes, produces, description, parameters,
                 responses) ==
            LET outs == <<tags, summary, consumes, produces, description,
                          parameters, responses>>
            IN IF \E i \in 1..Len(outs) : IsRaise(outs[i])
               THEN outs[CHOOSE i \in 1..Len(outs) :
                           /\ IsRaise(outs[i])
                           /\ \A j \in 1..(i - 1) : ~IsRaise(outs[j])]
               ELSE [tag |-> "EndPoint", tags |-> tags, summary |-> summary,
                     description |-> description, operationId |-> None,
                     consumes |-> consumes, produces |-> produces,
                     parameters |-> parameters, responses |-> responses]
    IN IF excluded(v, http_method) THEN None
       ELSE endpoint(
              EndPoint_extract(v, http_method, "TAGS", {"list"},
                               List(<<Str(SplitFirst(v.module, "."))>>)),
              EndPoint_extract(v, http_method, "SUMMARY", {"str"}, Str(v.name)),
              EndPoint_extract(v, http_method, "CONSUMES", {"list"},
                               List(<<Str("application/json")>>)),
              EndPoint_extract(v, http_method, "PRODUCES", {"list"},
                               List(<<Str("application/json")>>)),
              EndPoint_extract(v, http_method, "DESCRIPTION", {"str"},
                               doc_or_empty(v)),
              EndPoint_extract_parameters(v, http_method, uid),
              EndPoint_extract_responses(v, http_method, uid))

\* The loops of swagger's Path.create over entries [method, strict]: the
\* endpoint of each method is set on the path unless it is excluded or has
\* no responses
RECURSIVE create_endpoints(_, _, _, _)
create_endpoints(path, v, entries, uid) ==
    LET set(entry, endpoint) ==
            IF IsRaise(endpoint) THEN endpoint
            ELSE create_endpoints(
                   IF endpoint = None \/ ~Truthy(endpoint.responses)
                   THEN path
                   ELSE [path EXCEPT ![entry.method] = endpoint],
                   v, Tail(entries), uid)
        of(entry) ==
            set(entry,
                IF entry.method \in HttpMethodValues
                THEN EndPoint_from(v, entry.method, uid)
                ELSE IF entry.strict THEN Raise("ValueError") ELSE None)
    IN IF entries = <<>> THEN path
       ELSE of(Head(entries))

\* swagger's Path.create
SwaggerPath_create(v, uid) ==
    LET entries(methods, strict) ==
            [i \in 1..Len(methods) |-> [method |-> methods[i], strict |-> strict]]
        implemented == SelectSeq(HttpMethod, LAMBDA m : m \in v.methods)
        actions == IF v.actions = None THEN <<>>
                   ELSE [i \in 1..Len(v.actions.kv) |-> v.actions.kv[i].k.s]
        http_methods ==
            IF v.djagger_http_methods = None THEN <<>>
            ELSE [i \in 1..Len(v.djagger_http_methods.items) |->
                    lower(v.djagger_http_methods.items[i])]
    IN create_endpoints(
         [tag |-> "Path", post |-> None, get |-> None, put |-> None,
          patch |-> None, delete |-> None, options |-> None, head |-> None],
         v,
         IF v.kind = "class" THEN entries(implemented, TRUE)
         ELSE IF v.kind = "function"
         THEN entries(actions, FALSE) \o entries(http_methods, TRUE)
         ELSE <<>>,
         uid)


\* the concatenation of a sequence of sequences
RECURSIVE Concat(_)
Concat(seqs) ==
    IF seqs = <<>> THEN <<>> ELSE Head(seqs) \o Concat(Tail(seqs))

\* Document.compile_definitions, the popping: the response or parameter
\* without the definitions of its schema
without_definitions(x) ==
    IF x.schema_.tag = "dict"
    THEN [x EXCEPT !.schema_ = Dict(DictWithout(@.kv, Str("definitions")))]
    ELSE x

\* Document.compile_definitions, the collecting: the definitions of the
\* schemas of the responses, then of the parameters, of every endpoint of
\* every path, each updating the document's definitions in turn
compiled_definitions(paths) ==
    LET popped(x) ==
            IF x.schema_.tag = "dict"
            THEN DictGet(x.schema_.kv, Str("definitions"), Dict(<<>>)).kv
            ELSE <<>>
        of_endpoint(endpoint) ==
            IF endpoint = None THEN <<>>
            ELSE Concat([i \in 1..Len(endpoint.responses.kv) |->
                           popped(endpoint.responses.kv[i].v)])
                 \o Concat([i \in 1..Len(endpoint.parameters.items) |->
                              popped(endpoint.parameters.items[i])])
        of_path(path) ==
            Concat([m \in 1..Len(HttpMethod) |-> of_endpoint(path[HttpMethod[m]])])
    IN DictUpdate(<<>>, Concat([p \in 1..Len(paths) |-> of_path(paths[p].v)]))

\* Document.compile_definitions: the paths with every schema's definitions
\* popped, and the definitions of the document
compile_definitions(paths) ==
    LET of_endpoint(endpoint) ==
            IF endpoint = None THEN None
            ELSE [endpoint EXCEPT
                    !.responses =
                       Dict([i \in 1..Len(@.kv) |->
                               [k |-> @.kv[i].k,
                                v |-> without_definitions(@.kv[i].v)]]),
                    !.parameters =
                       List([i \in 1..Len(@.items) |->
                               without_definitions(@.items[i])])]
        of_path(path) ==
            [f \in DOMAIN path |->
               IF f = "tag" THEN path[f] ELSE of_endpoint(path[f])]
    IN [tag |-> "Document", swagger |-> "2.0",
        paths |-> Dict([p \in 1..Len(paths) |->
                          [k |-> paths[p].k, v |-> of_path(paths[p].v)]]),
        definitions |-> Dict(compiled_definitions(paths))]

\* the decimal digit of a small number
Digit(i) == SubSeq("0123456789", i + 1, i + 1)

\* one token for every call of a run, whichever call it is
uuid4_of_the_run(run, i) == run

\* uuid.uuid4().hex: a token no other call of the run has, and that no
\* call of a run with other random bits has.  run stands for the random
\* bits of a run, i for the place of the calls in it.
uuid4(run, i) == run \o Digit(i)

\* The loop of Document.generate over the url patterns: the path of every
\* view that is not excluded, under "/" + route, if it documents one of
\* get, post, put, patch and delete
RECURSIVE generated_paths(_, _, _, _)
generated_paths(url_patterns, run, i, paths) ==
    LET more(out) ==
            IF IsRaise(out) THEN out
            ELSE generated_paths(url_patterns, run, i + 1, out)
        with(route, path) ==
            IF IsRaise(path) THEN path
            ELSE IF \E m \in {"get", "post", "put", "patch", "delete"} :
                       path[m] # None
            THEN Dict(DictUpdate(paths.kv,
                                 <<[k |-> Str("/" \o route), v |-> path]>>))
            ELSE paths
        of(pattern) ==
            more(IF Truthy(getattr(pattern.view, view_attrs.DJAGGER_EXCLUDE,
                                   Bool(FALSE)))
                 THEN paths      \* continue
                 ELSE with(pattern.route,
                           SwaggerPath_create(pattern.view, uuid4(run, i))))
    IN IF i > Len(url_patterns) THEN paths
       ELSE of(url_patterns[i])

\* Document.generate: the document of the url patterns, after
\* compile_definitions
Document_generate(url_patterns, run) ==
    LET document(paths) ==
            IF IsRaise(paths) THEN paths ELSE compile_definitions(paths.kv)
    IN document(generated_paths(url_patterns, run, 1, Dict(<<>>)))

----------------------------------------------------------------------------
(* The handlers and declarations the model draws from *)

\* the handler has no attributes yet
NoAttrs == [n \in {} |-> None]

\* class UserView, in users/views.py, without a docstring.  A handler has
\* its __name__, __module__ and __doc__, the methods it implements with the
\* docstrings of those that have one (docs), its `actions` mapping and
\* `cls` when it is the dispatcher of a view set, the methods list the
\* schema decorator gave it, and its attributes
UserView ==
    [kind |-> "class", name |-> "UserView", module |-> "users.views",
     doc |-> None, methods |-> {}, docs |-> NoAttrs, actions |-> None,
     cls |-> None, djagger_http_methods |-> None, attrs |-> NoAttrs]

\* def list_items, in shop/api/items.py, with a docstring
list_items ==
    [kind |-> "function", name |-> "list_items", module |-> "shop.api.items",
     doc |-> Str("List the items."), methods |-> {}, docs |-> NoAttrs,
     actions |-> None, cls |-> None, djagger_http_methods |-> None,
     attrs |-> NoAttrs]

\* Field(..., required=, deprecated=, allowReserved=, explode=): the keys a
\* field declaration adds to its property
FieldExtra(required, deprecated) ==
    <<KV("required", Bool(required)), KV("deprecated", Bool(deprecated)),
      KV("allowReserved", Bool(FALSE)), KV("explode", Bool(FALSE))>>

\* class UserOut(BaseModel): """A user."""; name: str; age: int = 18
UserOut ==
    BaseModel("UserOut", Str("A user."),
              <<ModelField("name", Str("str"), Ellipsis, <<>>),
                ModelField("age", Str("int"), Int(18), <<>>)>>)

\* class ErrorOut(BaseModel): message: str   (no docstring)
ErrorOut ==
    BaseModel("ErrorOut", None,
              <<ModelField("message", Str("str"), Ellipsis, <<>>)>>)

\* class TeamOut(BaseModel): """A team."""; lead: UserOut; members: List[UserOut]
TeamOut ==
    BaseModel("TeamOut", Str("A team."),
              <<ModelField("lead", UserOut, Ellipsis, <<>>),
                ModelField("members", ListOf(UserOut), Ellipsis, <<>>)>>)

\* class UserSerializer(serializers.Serializer): """Test Serializer"""
\*     email = CharField(); age = IntegerField(required=False, default=0)
UserSerializer ==
    SerializerClass("UserSerializer", Str("Test Serializer"),
                    <<SerializerField("email", "CharField", TRUE, Empty, None),
                      SerializerField("age", "IntegerField", FALSE, Int(0), None)>>)

\* class PathParams(BaseModel): pk: int; name: str
PathParams ==
    BaseModel("PathParams", None,
              <<ModelField("pk", Str("int"), Ellipsis, <<>>),
                ModelField("name", Str("str"), Ellipsis, <<>>)>>)

\* class PageQuery(BaseModel): every field declared with Field(...) giving
\* required, deprecated, allowReserved and explode; q is required, page is
\* not, and the declarations say so
PageQuery ==
    BaseModel("PageQuery", Str("Paging."),
              <<ModelField("q", Str("str"), Ellipsis, FieldExtra(TRUE, FALSE)),
                ModelField("page", Str("int"), Int(1), FieldExtra(FALSE, FALSE))>>)

\* class SortQuery(BaseModel): as PageQuery, but the Field(...) of each
\* field says the opposite of the field's own required-ness
SortQuery ==
    BaseModel("SortQuery", None,
              <<ModelField("sort", Str("str"), Ellipsis, FieldExtra(FALSE, FALSE)),
                ModelField("desc", Str("bool"), Bool(FALSE), FieldExtra(TRUE, TRUE))>>)

\* The name of an attribute: the key itself at the API level, the key
\* prefixed with the method at the operation level
AttrName(prefix, key) == IF prefix = "" THEN key ELSE prefix \o "_" \o key

\* The <<name, value>> choices of a key, at each of the levels `prefixes`
Named(prefixes, key, values) ==
    {<<AttrName(pre, key), val>> : pre \in prefixes, val \in values}

----------------------------------------------------------------------------
(* The state machine *)

\* no call has been made on the handler as it is now
NoCall == [op |-> "none"]

\* a call on the handler: the handler as it was, the method, the outcome
Call(op, v, http_method, result) ==
    [op |-> op, view |-> v, http_method |-> http_method, result |-> result]

Init ==
    /\ view \in {UserView, list_items}
    /\ routes = <<>>
    /\ ret = NoCall

\* setattr(view, name, value): the handler gets or changes an attribute
SetAttr(choices) ==
    \E c \in choices :
        /\ hasattr(view, c[1]) \/ Cardinality(DOMAIN view.attrs) < MaxAttrs
        /\ view' = [view EXCEPT !.attrs = setattr(@, c[1], c[2])]
        /\ ret' = NoCall
        /\ UNCHANGED routes

\* delattr(view, name)
DelAttr ==
    \E n \in DOMAIN view.attrs :
        /\ view' = [view EXCEPT !.attrs = delattr(@, n)]
        /\ ret' = NoCall
        /\ UNCHANGED routes

\* A call is made on a handler that no call has seen as it is now: either
\* none was made since the last edit, or the last call changed the handler.
\* (A further call on an unchanged handler reaches the states the first
\* call could reach.)
Uncalled == IF ret = NoCall THEN TRUE ELSE view # ret.view

\* Operation._from(view, http_method)
CallOperationFrom ==
    \E http_method \in HttpMethodValues :
        LET made(out) ==
                /\ ret' = Call("Operation._from", view, http_method, out.result)
                /\ view' = out.view
        IN /\ Uncalled
           /\ made(Operation_from(view, http_method))
           /\ UNCHANGED routes

\* operation._extract_deprecated(view, http_method) on a new Operation;
\* the outcome is operation.deprecated
CallExtractDeprecated ==
    \E http_method \in HttpMethodValues :
        /\ Uncalled
        /\ ret' = Call("_extract_deprecated", view, http_method,
                       _extract_deprecated(view, http_method))
        /\ UNCHANGED <<view, routes>>

\* DjaggerViewAttributes(...).from_view(view, attr_name, http_method)
CallFromView(attr_names) ==
    \E attr_name \in attr_names, http_method \in HttpMethodValues :
        /\ Uncalled
        /\ ret' = [op |-> "from_view", view |-> view,
                   http_method |-> http_method, attr_name |-> attr_name,
                   result |-> from_view(view, attr_name, http_method)]
        /\ UNCHANGED <<view, routes>>

\* operation._extract_responses(view, http_method) on a new Operation; the
\* outcome is operation.responses
CallExtractResponses ==
    \E http_method \in HttpMethodValues :
        /\ Uncalled
        /\ ret' = Call("_extract_responses", view, http_method,
                       _extract_responses(view, http_method))
        /\ UNCHANGED <<view, routes>>

\* operation._extract_parameters(view, http_method) on a new Operation;
\* the outcome is operation.parameters
CallExtractParameters ==
    \E http_method \in HttpMethodValues :
        /\ Uncalled
        /\ ret' = Call("_extract_parameters", view, http_method,
                       _extract_parameters(view, http_method))
        /\ UNCHANGED <<view, routes>>

\* operation._extract_request_body(view, http_method) on a new Operation;
\* the outcome is operation.requestBody
CallExtractRequestBody ==
    \E http_method \in HttpMethodValues :
        LET made(out) ==
                /\ ret' = Call("_extract_request_body", view, http_method,
                               out.requestBody)
                /\ view' = out.view
        IN /\ Uncalled
           /\ made(_extract_request_body(view, http_method))
           /\ UNCHANGED routes

\* SerializerConverter(s=serializer).to_model().schema() for a serializer
\* that is the value of an attribute of the handler
CallToModel ==
    \E name \in DOMAIN view.attrs :
        /\ Uncalled
        /\ isinstance(view.attrs[name], {"serializer"})
        /\ ret' = [op |-> "to_model", view |-> view, s |-> view.attrs[name],
                   result |->
                     IF schema_KeyError(to_model(view.attrs[name]))
                     THEN Raise("KeyError")
                     ELSE Dict(schema(to_model(view.attrs[name]),
                                      default_ref_template))]
        /\ UNCHANGED <<view, routes>>

\* urlpatterns gets path(route, handler) for one of the handlers
AddRoute(handlers, route_names) ==
    \E handler \in handlers, route \in route_names :
        /\ Len(routes) < MaxRoutes
        /\ routes' = Append(routes, [route |-> route, view |-> handler])
        /\ ret' = NoCall
        /\ UNCHANGED view

\* the random bits a run of the generator may draw
Runs == {"a", "b"}

\* Document.generate() over the url patterns, once more or for the first
\* time
CallGenerate ==
    \E run \in Runs :
        /\ ret' = [op |-> "Document.generate", url_patterns |-> routes,
                   run |-> run, result |-> Document_generate(routes, run)]
        /\ UNCHANGED <<view, routes>>

\* Reference.dereference(schema, definitions)
CallDereference(schemas, definition_maps) ==
    \E obj \in schemas, definitions \in definition_maps :
        /\ ret' = [op |-> "Reference.dereference", schema |-> obj,
                   definitions |-> definitions,
                   result |-> dereference(obj, definitions.kv)]
        /\ UNCHANGED <<view, routes>>

\* openapi's Document.generate() over the url patterns
CallOpenapiGenerate ==
    LET made(out) ==
            /\ ret' = [op |-> "openapi.Document.generate",
                       url_patterns |-> routes, result |-> out.result]
            /\ routes' = out.url_patterns
    IN /\ ret = NoCall
       /\ made(OpenapiDocument_generate(routes))
       /\ UNCHANGED view

\* @schema(methods=methods, **attrs) on a handler that is not decorated yet
CallSchema(method_lists, keywords) ==
    \E methods \in method_lists, attrs \in keywords :
        LET made(out) ==
                /\ ret' = [op |-> "schema", view |-> view, methods |-> methods,
                           attrs |-> attrs, result |-> out.result]
                /\ view' = out.view
        IN /\ view.djagger_http_methods = None
           /\ made(decorators_schema(methods, attrs, view))
           /\ UNCHANGED routes

\* list_urls(resolver) for the root resolver of a project
CallListUrls(resolvers) ==
    \E resolver \in resolvers :
        /\ ret = NoCall
        /\ ret' = [op |-> "list_urls", resolver |-> resolver,
                   result |-> list_urls(resolver, "")]
        /\ UNCHANGED <<view, routes>>

\* Reference.dereference(schema, definitions) is called: its first frame
StartDereference(schemas, definition_maps) ==
    \E obj \in schemas, definitions \in definition_maps :
        /\ ret = NoCall
        /\ ret' = [op |-> "dereference", schema |-> obj,
                   definitions |-> definitions,
                   run |-> [stack |-> <<[obj |-> obj, i |-> 1]>>,
                            status |-> "running", result |-> None]]
        /\ UNCHANGED <<view, routes>>

\* the running call of Reference.dereference takes its next step
StepDereference ==
    /\ ret.op = "dereference"
    /\ ret.run.status = "running"
    /\ ret' = [ret EXCEPT !.run = dereference_step(@, ret.definitions.kv)]
    /\ UNCHANGED <<view, routes>>

\* Path.create(view)
CallPathCreate ==
    LET made(out) ==
            /\ ret' = Call("Path.create", view, "", out.result)
            /\ view' = out.view
    IN /\ Uncalled
       /\ made(Path_create(view))
       /\ UNCHANGED routes

\* def <http_method>(self, request): the class gets a method
DefineMethod ==
    \E http_method \in HttpMethodValues :
        /\ view.kind = "class"
        /\ http_method \notin view.methods
        /\ Cardinality(view.methods) < MaxMethods
        /\ view' = [view EXCEPT !.methods = @ \cup {http_method}]
        /\ ret' = NoCall
        /\ UNCHANGED routes

----------------------------------------------------------------------------
(* Attribute resolution in a built operation *)

TextA == Str("List the users")
TextB == Str("All users, paged")
TagsA == List(<<Str("users")>>)
TagsB == List(<<Str("admin"), Str("v2")>>)
ResponsesA == Dict(<<KV("200", UserOut), KV("404", UserSerializer)>>)

\* The keys whose operation-level attribute is documented to win
ResolveChoices ==
    UNION { Named({"", "get"}, key, {TextA, TextB})
              : key \in {"summary", "description", "operation_id"} }
    \cup Named({"", "get"}, "tags", {TagsA, TagsB})
    \cup Named({"", "get"}, "response_schema", {TeamOut, ResponsesA})
    \cup UNION { Named({"", "get"}, key, {PageQuery, SortQuery})
                   : key \in {"path_params", "query_params",
                              "header_params", "cookie_params"} }

NextResolve ==
    \/ SetAttr(ResolveChoices)
    \/ DelAttr
    \/ CallOperationFrom

SpecResolve == Init /\ [][NextResolve]_vars

\* the last call was Operation._from and it returned an Operation
Built == ret.op = "Operation._from" /\ ret.result.tag = "Operation"

\* The keys of C1, and the field of the Operation each one fills
TextKeys == {"SUMMARY", "DESCRIPTION", "TAGS", "OPERATION_ID"}
ParamKeys == {"PATH_PARAMS", "QUERY_PARAMS", "HEADER_PARAMS", "COOKIE_PARAMS"}
ResolvedKeys == TextKeys \cup {"RESPONSE_SCHEMA"} \cup ParamKeys

OperationField(key) ==
    CASE key = "SUMMARY" -> "summary"
      [] key = "DESCRIPTION" -> "description"
      [] key = "TAGS" -> "tags"
      [] key = "OPERATION_ID" -> "operationId"

\* The responses of a handler whose one attribute is response_schema = value
ResponsesOf(value) ==
    _extract_responses(
      [UserView EXCEPT !.attrs = setattr(NoAttrs, "response_schema", value)],
      "get")

\* The operation uses `value` for the key: the text field holds it, the
\* responses are those of the value, the parameters of the key's location
\* are those of the value's fields
Uses(operation, key, value) ==
    CASE key \in TextKeys -> operation[OperationField(key)] = value
      [] key = "RESPONSE_SCHEMA" -> operation.responses = ResponsesOf(value)
      [] key \in ParamKeys ->
           SelectSeq(operation.parameters.items,
                     LAMBDA q : q.in_ = location(key))
           = to_parameters(value, key, view_attrs[key]).items

\* the handler has the attribute, with a truthy value
SetTruthy(v, name) == hasattr(v, name) /\ Truthy(v.attrs[name])

\* C1: whenever Operation._from returns an Operation for a verb V, for
\* every key K among summary, description, tags, operation_id,
\* response_schema and the path, query, header and cookie params: if the
\* handler has both V_K and K with truthy values the operation uses the
\* value of V_K, and if the handler has no V_K (so for every other verb)
\* and a truthy K the operation uses the value of K.
C1_OperationLevelWins ==
    Built =>
      \A key \in ResolvedKeys :
         LET own == to_djagger_attribute(ret.http_method)[key]
             api == view_attrs[key]
         IN /\ SetTruthy(ret.view, own) /\ SetTruthy(ret.view, api)
                 => Uses(ret.result, key, ret.view.attrs[own])
            /\ ~hasattr(ret.view, own) /\ SetTruthy(ret.view, api)
                 => Uses(ret.result, key, ret.view.attrs[api])

\* C1 happens: a handler with get_response_schema and a different
\* response_schema, and the operation built for GET has the responses of
\* get_response_schema
C1_Witness ==
    /\ Built
    /\ ret.http_method = "get"
    /\ SetTruthy(ret.view, "get_response_schema")
    /\ SetTruthy(ret.view, "response_schema")
    /\ ret.view.attrs["get_response_schema"] # ret.view.attrs["response_schema"]
    /\ ret.result.responses = ResponsesOf(ret.view.attrs["get_response_schema"])
    /\ ret.result.responses # ResponsesOf(ret.view.attrs["response_schema"])

----------------------------------------------------------------------------
(* Excluded operations of a path *)

\* Exclude attributes of two methods and of the handler, and response
\* schemas with and without a docstring
PathChoices ==
    Named({"", "get", "post"}, "djagger_exclude", {Bool(TRUE), Bool(FALSE)})
    \cup Named({"", "get"}, "response_schema", {UserOut, ErrorOut})

NextPath ==
    \/ SetAttr(PathChoices)
    \/ DelAttr
    \/ DefineMethod
    \/ CallPathCreate

SpecPath == Init /\ [][NextPath]_vars

\* the last call was Path.create on a class and it returned a Path
Created ==
    /\ ret.op = "Path.create"
    /\ ret.view.kind = "class"
    /\ ret.result.tag = "Path"

\* C2: whenever Path.create returns a Path for a class, for every method V
\* the class implements: the Path has no V operation if V_djagger_exclude
\* is truthy on the handler at the call, and has one if V_djagger_exclude
\* is not set; whatever edits of the handler came before.
C2_ExcludedOperationAbsent ==
    Created =>
      \A V \in ret.view.methods :
         LET name == to_djagger_attribute(V).DJAGGER_EXCLUDE
         IN /\ SetTruthy(ret.view, name) => ret.result[V] = None
            /\ ~hasattr(ret.view, name) => ret.result[V].tag = "Operation"

\* C2 happens: a class with get and post methods, a response schema and
\* post_djagger_exclude = True; the Path has a get operation with its
\* responses and no post operation
C2_Witness ==
    /\ Created
    /\ ret.view.methods = {"get", "post"}
    /\ SetTruthy(ret.view, "post_djagger_exclude")
    /\ hasattr(ret.view, "response_schema")
    /\ ret.result["post"] = None
    /\ ret.result["get"].tag = "Operation"
    /\ ret.result["get"].responses # Dict(<<>>)

----------------------------------------------------------------------------
(* Falsy attributes and defaults *)

\* summary, tags and deprecated at the API level and for two methods, with
\* truthy and falsy values
TextChoices ==
    Named({"", "get", "post"}, "summary", {TextA, TextB, Str("")})
    \cup Named({"", "get", "post"}, "tags", {TagsA, TagsB, List(<<>>)})
    \cup Named({"", "get", "post"}, "deprecated", {Bool(TRUE), Bool(FALSE)})

NextText ==
    \/ SetAttr(TextChoices)
    \/ DelAttr
    \/ CallFromView({"summary", "tags", "deprecated"})
    \/ CallExtractDeprecated
    \/ CallOperationFrom

SpecText == Init /\ [][NextText]_vars

\* the handler has the operation-level attribute with a falsy value and the
\* API-level attribute with a truthy one
FalsyOverTruthy(v, own, api) ==
    hasattr(v, own) /\ ~Truthy(v.attrs[own]) /\ SetTruthy(v, api)

\* C3: when V_K is present with a falsy value and K is present with a
\* truthy value, resolving K for V gives the falsy value of V_K: from_view
\* returns it, _extract_deprecated leaves it in operation.deprecated (so
\* get_deprecated = False with deprecated = True gives an operation that
\* is not deprecated), and the summary and tags of a built operation are it.
C3_FalsyOperationLevelWins ==
    /\ ret.op = "from_view"
         => LET own == ret.http_method \o "_" \o ret.attr_name
            IN FalsyOverTruthy(ret.view, own, ret.attr_name)
                 => ret.result = ret.view.attrs[own]
    /\ ret.op = "_extract_deprecated"
         => LET own == to_djagger_attribute(ret.http_method).DEPRECATED
            IN FalsyOverTruthy(ret.view, own, "deprecated")
                 => ret.result = ret.view.attrs[own]
    /\ Built
         => \A key \in {"SUMMARY", "TAGS"} :
               LET own == to_djagger_attribute(ret.http_method)[key]
               IN FalsyOverTruthy(ret.view, own, view_attrs[key])
                    => ret.result[OperationField(key)] = ret.view.attrs[own]

\* the string has no dot
RECURSIVE Dotless(_)
Dotless(st) ==
    st = "" \/ (SubSeq(st, 1, 1) # "." /\ Dotless(SubSeq(st, 2, Len(st))))

\* seg is the first dot-separated segment of the module path
FirstSegment(seg, module) ==
    Dotless(seg) /\ (module = seg \/ StartsWith(module, seg \o "."))

\* C4: whenever Operation._from returns an Operation for a verb V on a
\* handler with neither V_summary nor summary, its summary is the handler's
\* name; on a handler with neither V_tags nor tags, its tags are the
\* one-element list of the first dot-separated segment of the handler's
\* module path.
C4_DefaultSummaryAndTags ==
    Built =>
      LET own == to_djagger_attribute(ret.http_method)
      IN /\ ~hasattr(ret.view, own.SUMMARY) /\ ~hasattr(ret.view, "summary")
              => ret.result.summary = Str(ret.view.name)
         /\ ~hasattr(ret.view, own.TAGS) /\ ~hasattr(ret.view, "tags")
              => /\ ret.result.tags.tag = "list"
                 /\ Len(ret.result.tags.items) = 1
                 /\ FirstSegment(ret.result.tags.items[1].s, ret.view.module)

\* C4 happens: an operation built for POST on list_items (module
\* shop.api.items) with no summary and no tags attribute at all, whose
\* summary is "list_items" and whose tags are ["shop"]
C4_Witness ==
    /\ Built
    /\ ret.http_method = "post"
    /\ ret.view.name = "list_items"
    /\ \A n \in DOMAIN ret.view.attrs :
          ~Contains(n, "summary") /\ ~Contains(n, "tags")
    /\ ret.result.summary = Str("list_items")
    /\ ret.result.tags = List(<<Str("shop")>>)

----------------------------------------------------------------------------
(* Responses *)

\* {"200": TeamOut, "default": {"description": "Any error"}}
ResponsesRaw ==
    Dict(<<KV("200", TeamOut),
           KV("default", Dict(<<KV("description", Str("Any error"))>>))>>)

\* {"200": UserOut, "400": ErrorOut}
ResponsesB == Dict(<<KV("200", UserOut), KV("400", ErrorOut)>>)

\* {200: UserOut}
ResponsesInt == Dict(<<[k |-> Int(200), v |-> UserOut]>>)

ResponseChoices ==
    Named({"", "get", "post"}, "response_schema",
          {None, UserOut, ErrorOut, UserSerializer, ResponsesA, ResponsesB,
           ResponsesRaw, ResponsesInt})

NextResponses ==
    \/ SetAttr(ResponseChoices)
    \/ DelAttr
    \/ CallExtractResponses

SpecResponses == Init /\ [][NextResponses]_vars

\* The attribute a key resolves to for a method: the operation-level one if
\* the handler has it, else the API-level one, else None
Resolved(v, http_method, key) ==
    getattr(v, to_djagger_attribute(http_method)[key],
            getattr(v, view_attrs[key], None))

\* a model or a serializer
IsSchema(x) == isinstance(x, {"model", "serializer"})

\* a model or a serializer with a docstring
IsDocumented(x) == IF IsSchema(x) THEN x.doc # None ELSE FALSE

\* a dict of status-code strings, each with a value that is Ok
IsMapping(x, Ok(_)) ==
    IF x.tag = "dict"
    THEN \A i \in 1..Len(x.kv) : x.kv[i].k.tag = "str" /\ Ok(x.kv[i].v)
    ELSE FALSE

\* the keys of a dict, as a set
KeySet(d) == {d.kv[i].k : i \in 1..Len(d.kv)}

\* C5: _extract_responses gives, without an error, no responses when the
\* handler has neither V_response_schema nor response_schema; responses
\* with the one key "200" when the resolved response schema is a model or
\* a serializer; and responses with the keys of the mapping when it is a
\* mapping of status-code strings to models and serializers.
C5_ResponseKeys ==
    ret.op = "_extract_responses" =>
      LET own == to_djagger_attribute(ret.http_method).RESPONSE_SCHEMA
          response_schema == Resolved(ret.view, ret.http_method, "RESPONSE_SCHEMA")
      IN /\ ~hasattr(ret.view, own) /\ ~hasattr(ret.view, "response_schema")
              => ret.result = Dict(<<>>)
         /\ IsSchema(response_schema)
              => ret.result.tag = "dict" /\ KeySet(ret.result) = {Str("200")}
         /\ IsMapping(response_schema, IsSchema)
              => /\ ret.result.tag = "dict"
                 /\ KeySet(ret.result) = KeySet(response_schema)

\* C5 where the code has it: the same, for models and serializers that
\* have a docstring
C5_ResponseKeysOfDocumented ==
    ret.op = "_extract_responses" =>
      LET own == to_djagger_attribute(ret.http_method).RESPONSE_SCHEMA
          response_schema == Resolved(ret.view, ret.http_method, "RESPONSE_SCHEMA")
      IN /\ ~hasattr(ret.view, own) /\ ~hasattr(ret.view, "response_schema")
              => ret.result = Dict(<<>>)
         /\ IsDocumented(response_schema)
              => ret.result.tag = "dict" /\ KeySet(ret.result) = {Str("200")}
         /\ IsMapping(response_schema, IsDocumented)
              => /\ ret.result.tag = "dict"
                 /\ KeySet(ret.result) = KeySet(response_schema)

----------------------------------------------------------------------------
(* Request bodies *)

\* {"description": "Upload", "required": True, "application/json": UserOut,
\*  "text/plain": ErrorOut, "text/html": {"schema": {"type": "string"}}}
Body3 ==
    Dict(<<KV("description", Str("Upload")),
           KV("required", Bool(TRUE)),
           KV("application/json", UserOut),
           KV("text/plain", ErrorOut),
           KV("text/html",
              Dict(<<KV("schema", Dict(<<KV("type", Str("string"))>>))>>))>>)

\* {"application/json": UserOut}
Body1 == Dict(<<KV("application/json", UserOut)>>)

\* {"description": "Nothing to send", "required": False}
BodyMeta ==
    Dict(<<KV("description", Str("Nothing to send")),
           KV("required", Bool(FALSE))>>)

BodyChoices ==
    Named({"", "get", "post"}, "body_params",
          {UserOut, ErrorOut, Body3, Body1, BodyMeta, Str("UserOut")})

NextRequestBody ==
    \/ SetAttr(BodyChoices)
    \/ DelAttr
    \/ CallExtractRequestBody

SpecRequestBody == Init /\ [][NextRequestBody]_vars

\* the keys of a body mapping that are content types
ContentTypes(body) == KeySet(body) \ {Str("description"), Str("required")}

\* C6: when the body attribute of the method is a mapping with content
\* types (three, say), each mapped to a model or a raw media-type dict,
\* _extract_request_body completes and gives a RequestBody whose content
\* has exactly those content types as keys, and whose description and
\* required are the mapping's reserved keys.
C6_ContentPerType ==
    ret.op = "_extract_request_body" =>
      LET body == getattr(ret.view,
                          to_djagger_attribute(ret.http_method).BODY_PARAMS, None)
      IN body.tag = "dict" /\ ContentTypes(body) # {}
           => /\ ret.result.tag = "RequestBody"
              /\ {ret.result.content[i].k : i \in 1..Len(ret.result.content)}
                 = ContentTypes(body)
              /\ ret.result.description
                 = DictGet(body.kv, Str("description"), Str(""))
              /\ ret.result.required
                 = DictGet(body.kv, Str("required"), Bool(FALSE))

----------------------------------------------------------------------------
(* Parameters *)

ParamChoices ==
    UNION {Named({"", "get"}, view_attrs[key],
                 {PageQuery, SortQuery, PathParams, UserSerializer})
           : key \in ParamKeys}
    \cup Named({"", "get"}, "body_params", {UserOut, Body1})

NextParameters ==
    \/ SetAttr(ParamChoices)
    \/ DelAttr
    \/ CallExtractParameters

SpecParameters == Init /\ [][NextParameters]_vars

\* the names of the top-level fields of a model or a serializer, in order
FieldNames(x) ==
    IF IsSchema(x) THEN [i \in 1..Len(x.fields) |-> x.fields[i].name]
    ELSE <<>>

\* the names of the parameters that have a location, in order
RECURSIVE NamesAt(_, _)
NamesAt(params, in_) ==
    IF params = <<>> THEN <<>>
    ELSE (IF Head(params).in_ = in_ THEN <<Head(params).name>> ELSE <<>>)
         \o NamesAt(Tail(params), in_)

\* C7: _extract_parameters gives a list that has, for each of the path,
\* query, header and cookie attributes the method resolves to, one
\* Parameter per top-level field of the schema, with the location of the
\* attribute; no Parameter has another location, body included.
C7_ParameterPerField ==
    ret.op = "_extract_parameters" =>
      /\ ret.result.tag = "list"
      /\ \A key \in ParamKeys :
            NamesAt(ret.result.items, location(key))
            = FieldNames(Resolved(ret.view, ret.http_method, key))
      /\ \A i \in 1..Len(ret.result.items) :
            ret.result.items[i].in_ \in {location(key) : key \in ParamKeys}

\* a field of a model is required when it has no default; a field of a
\* serializer when the serializer says so
IsRequired(x, name) ==
    \E i \in 1..Len(x.fields) :
        /\ x.fields[i].name = name
        /\ IF x.tag = "model" THEN x.fields[i].default = Ellipsis
           ELSE x.fields[i].required

\* C8: in the list _extract_parameters gives, the required flag of every
\* Parameter is the required-ness of the field it is derived from.
C8_RequiredOfField ==
    ret.op = "_extract_parameters" /\ ret.result.tag = "list" =>
      \A i \in 1..Len(ret.result.items) :
         \A key \in ParamKeys :
            ret.result.items[i].in_ = location(key)
              => ret.result.items[i].required
                 = Bool(IsRequired(Resolved(ret.view, ret.http_method, key),
                                   ret.result.items[i].name))

----------------------------------------------------------------------------
(* Serializers *)

\* the names of the fields of a declared serializer, by position
DeclaredNames == <<"email", "age", "owner", "friends">>

\* the declarations of a field that DRF accepts: a required field has no
\* default; a nested serializer is UserSerializer(many=True)
Declarations ==
    {d \in [kind : {"CharField", "IntegerField", "ListSerializer"},
            required : BOOLEAN, default : {Empty, Int(0)}] :
        ~(d.required /\ d.default # Empty)}

Declared(name, d) ==
    SerializerField(name, d.kind, d.required, d.default,
                    IF d.kind = "ListSerializer" THEN UserSerializer ELSE None)

\* class ProfileSerializer(serializers.Serializer) with up to MaxFields
\* declared fields
SerializerSpace ==
    UNION {{SerializerClass("ProfileSerializer", Str("A profile."),
                            [i \in 1..n |-> Declared(DeclaredNames[i], ds[i])])
            : ds \in [1..n -> Declarations]}
           : n \in 0..MaxFields}

SerializerChoices == Named({""}, "response_schema", SerializerSpace)

NextSerializer ==
    \/ SetAttr(SerializerChoices)
    \/ DelAttr
    \/ CallToModel

SpecSerializer == Init /\ [][NextSerializer]_vars

\* the required set of a schema
RequiredSet(sch) ==
    LET required == DictGet(sch.kv, Str("required"), List(<<>>))
    IN {required.items[i] : i \in 1..Len(required.items)}

\* C9: the schema that the model a serializer converts to yields has, as
\* its required set, exactly the names of the fields declared required; a
\* field that is not required, with or without a default, is not in it.
C9_RequiredSetIsDeclared ==
    ret.op = "to_model" /\ ret.result.tag = "dict" =>
      /\ RequiredSet(ret.result)
         = {Str(ret.s.fields[i].name) :
              i \in {j \in 1..Len(ret.s.fields) : ret.s.fields[j].required}}
      /\ \A i \in 1..Len(ret.s.fields) :
            ~ret.s.fields[i].required
              => Str(ret.s.fields[i].name) \notin RequiredSet(ret.result)

\* a required string field and an integer field that is not required and
\* has the default 0: the required set is the string field's name
C9_Witness ==
    /\ ret.op = "to_model"
    /\ ret.s.fields = <<SerializerField("email", "CharField", TRUE, Empty, None),
                        SerializerField("age", "IntegerField", FALSE, Int(0), None)>>
    /\ RequiredSet(ret.result) = {Str("email")}

----------------------------------------------------------------------------
(* References of a generated document *)

\* class TeamSerializer(serializers.Serializer): """Test Serializer"""
\*     members = UserSerializer(many=True)
TeamSerializer ==
    SerializerClass("TeamSerializer", Str("Test Serializer"),
                    <<SerializerField("members", "ListSerializer", TRUE, Empty,
                                      UserSerializer)>>)

\* class OrgOut(BaseModel): """An organisation."""; teams: List[TeamOut]
OrgOut ==
    BaseModel("OrgOut", Str("An organisation."),
              <<ModelField("teams", ListOf(TeamOut), Ellipsis, <<>>)>>)

\* {"200": TeamOut, "404": TeamSerializer}
ResponsesTeam == Dict(<<KV("200", TeamOut), KV("404", TeamSerializer)>>)

\* a class-based view with methods and attributes
ClassView(methods, attrs) ==
    [UserView EXCEPT !.methods = methods, !.attrs = attrs]

\* the handlers of the url patterns
DocHandlers ==
    { ClassView({"get"}, setattr(NoAttrs, "response_schema", TeamOut)),
      ClassView({"get", "post"},
                setattr(setattr(NoAttrs, "response_schema", TeamOut),
                        "body_params", OrgOut)),
      ClassView({"get"},
                setattr(setattr(NoAttrs, "get_response_schema", ResponsesTeam),
                        "query_params", TeamOut)),
      ClassView({"get"},
                setattr(setattr(NoAttrs, "response_schema", TeamOut),
                        "djagger_exclude", Bool(TRUE))),
      ClassView({"get"}, NoAttrs),
      ClassView({"get"}, setattr(NoAttrs, "response_schema", ResponsesRaw)),
      [list_items EXCEPT
         !.djagger_http_methods = List(<<"GET">>),
         !.attrs = setattr(setattr(NoAttrs, "response_schema", UserOut),
                           "body_params", TeamOut)] }

RouteNames == {"users/", "teams/"}

NextDocument ==
    \/ AddRoute(DocHandlers, RouteNames)
    \/ CallGenerate

SpecDocument == Init /\ [][NextDocument]_vars

\* the $ref strings anywhere in a value
RECURSIVE Refs(_)
Refs(x) ==
    LET under(children) == UNION {Refs(c) : c \in children}
    IN CASE x.tag = "dict" ->
              (IF DictHas(x.kv, Str("$ref"))
               THEN {DictGet(x.kv, Str("$ref"), None).s} ELSE {})
              \cup under({x.kv[i].v : i \in 1..Len(x.kv)})
         [] x.tag = "list" -> under({x.items[i] : i \in 1..Len(x.items)})
         [] OTHER -> {}

\* the endpoints of a document
EndPoints(doc) ==
    {doc.paths.kv[p].v[m] : p \in 1..Len(doc.paths.kv), m \in HttpMethodValues}
    \ {None}

\* the schemas of the parameters and of the responses of a document
Schemas(doc) ==
    UNION {{e.parameters.items[i].schema_ : i \in 1..Len(e.parameters.items)}
           \cup {e.responses.kv[i].v.schema_ : i \in 1..Len(e.responses.kv)}
           : e \in EndPoints(doc)}
    \ {None}

\* the last call was Document.generate and it returned a document
Generated ==
    /\ ret.op = "Document.generate"
    /\ ret.result.tag = "Document"

\* C10: in every document Document.generate returns, every $ref in the
\* schema of a parameter or of a response, or in a definition, is
\* "#/definitions/" and a key of the document's definitions; and no
\* schema of a parameter or of a response has definitions of its own.
C10_NoDanglingReference ==
    Generated =>
      /\ \A ref \in UNION {Refs(sch) : sch \in Schemas(ret.result)}
                    \cup Refs(ret.result.definitions) :
            \E name \in KeySet(ret.result.definitions) :
                ref = "#/definitions/" \o name.s
      /\ \A sch \in Schemas(ret.result) : ~DictHas(sch.kv, Str("definitions"))

\* a document of two paths, with a schema that has a reference and with
\* definitions compiled from more than one schema
C10_Witness ==
    /\ Generated
    /\ Len(ret.result.paths.kv) = 2
    /\ \E sch \in Schemas(ret.result) : Refs(sch) # {}
    /\ Refs(ret.result.definitions) # {}
    /\ Cardinality(KeySet(ret.result.definitions)) > 2

----------------------------------------------------------------------------
(* Definition names of one generation *)

\* The calls of extract_unique_schema whose schema one run of
\* Document.generate keeps: the place of the call and the schema it gave,
\* as the paths hold it before compile_definitions
ExtractCalls(paths) ==
    LET of_endpoint(p, m, e) ==
            {[at |-> <<p, m, "responses", i>>,
              schema_ |-> e.responses.kv[i].v.schema_]
               : i \in 1..Len(e.responses.kv)}
            \cup {[at |-> <<p, m, "parameters", i>>,
                   schema_ |-> e.parameters.items[i].schema_]
                    : i \in 1..Len(e.parameters.items)}
        of_path(p, path) ==
            UNION {IF path[m] = None THEN {} ELSE of_endpoint(p, m, path[m])
                   : m \in HttpMethodValues}
        calls == UNION {of_path(p, paths[p].v) : p \in 1..Len(paths)}
    IN {c \in calls : c.schema_ # None}

\* the definitions a call gave
DefinitionsOf(call) == DictGet(call.schema_.kv, Str("definitions"), Dict(<<>>))

\* the calls of the run that gave the document of the last call
CallsOfRun ==
    ExtractCalls(generated_paths(ret.url_patterns, ret.run, 1, Dict(<<>>)).kv)

\* C11: in one run of Document.generate, the definition names of any two
\* calls of extract_unique_schema are disjoint, the names of one call all
\* end in one token that no other call's names end in, the merged
\* definitions of the document hold every definition of every call as the
\* call gave it, and every reference in the schema of a call names a
\* definition of that same call.
C11_DisjointDefinitionNames ==
    Generated =>
      LET holds(calls) ==
            /\ \A c, d \in calls :
                  c # d => KeySet(DefinitionsOf(c)) \cap KeySet(DefinitionsOf(d)) = {}
            /\ \A c, d \in calls :
                  \A k \in KeySet(DefinitionsOf(c)), l \in KeySet(DefinitionsOf(d)) :
                     (AfterFirst(k.s, "-") = AfterFirst(l.s, "-")) <=> (c = d)
            /\ \A c \in calls :
                  \A k \in KeySet(DefinitionsOf(c)) :
                     DictGet(ret.result.definitions.kv, k, None)
                       = DictGet(DefinitionsOf(c).kv, k, Empty)
            /\ \A c \in calls :
                  \A ref \in Refs(c.schema_) :
                     \E k \in KeySet(DefinitionsOf(c)) :
                        ref = "#/definitions/" \o k.s
      IN holds(CallsOfRun)

\* a document of two routes of one handler: the same model is extracted
\* by two calls, and the document has one definition of it for each
C11_Witness ==
    /\ Generated
    /\ Len(ret.url_patterns) = 2
    /\ ret.url_patterns[1].view = ret.url_patterns[2].view
    /\ \E k, l \in KeySet(ret.result.definitions) :
          /\ k # l
          /\ SplitFirst(k.s, "-") = SplitFirst(l.s, "-")
          /\ DictGet(ret.result.definitions.kv, k, None)
             # DictGet(ret.result.definitions.kv, l, None)

----------------------------------------------------------------------------
(* A nested sub-type used by two fields *)

\* the pairs of fields of a serializer that are of one nested serializer
FieldsOfOneSubType(s) ==
    {p \in (1..Len(s.fields)) \X (1..Len(s.fields)) :
        /\ p[1] < p[2]
        /\ s.fields[p[1]].child # None
        /\ s.fields[p[1]].child = s.fields[p[2]].child}

\* C12: the schema of the model of a serializer that has two fields of one
\* nested serializer has exactly one definition of that nested serializer,
\* and the properties of both fields reference it by the one name.
C12_OneDefinitionOfSubType ==
    ret.op = "to_model" =>
      \A p \in FieldsOfOneSubType(ret.s) :
         LET name == ret.s.fields[p[1]].child.name
             definitions(sch) == DictGet(sch.kv, Str("definitions"), Dict(<<>>))
             property(sch, i) ==
                 DictGet(DictGet(sch.kv, Str("properties"), Dict(<<>>)).kv,
                         Str(ret.s.fields[i].name), None)
             holds(sch) ==
                 /\ sch.tag = "dict"
                 /\ Cardinality({i \in 1..Len(definitions(sch).kv) :
                                   DictGet(definitions(sch).kv[i].v.kv,
                                           Str("title"), None) = Str(name)}) = 1
                 /\ \E k \in KeySet(definitions(sch)) :
                       /\ Refs(property(sch, p[1])) = {"#/definitions/" \o k.s}
                       /\ Refs(property(sch, p[2])) = {"#/definitions/" \o k.s}
         IN holds(ret.result)

----------------------------------------------------------------------------
(* Dereferencing *)

\* {"$ref": "#/definitions/<name>"}
Ref(name) == Dict(<<KV("$ref", Str("#/definitions/" \o name))>>)

StringSchema == Dict(<<KV("type", Str("string"))>>)

\* the schema trees of depth d at most: a string schema, a reference, an
\* array schema of a tree, a list of a tree and a reference
RECURSIVE SchemaTrees(_)
SchemaTrees(d) ==
    IF d = 0 THEN {StringSchema, Ref("A"), Ref("B")}
    ELSE LET under == SchemaTrees(d - 1)
         IN under
            \cup {Dict(<<KV("type", Str("array")), KV("items", t)>>) : t \in under}
            \cup {List(<<t, Ref("A")>>) : t \in under}

\* definitions maps without a cycle: A may reference B, B references
\* nothing; B may be missing
DefinitionMaps ==
    LET As == {StringSchema, Ref("B"),
               Dict(<<KV("title", Str("A")),
                      KV("properties", Dict(<<KV("b", Ref("B"))>>))>>)}
        Bs == {<<>>, <<KV("B", StringSchema)>>,
               <<KV("B", Dict(<<KV("enum", List(<<Str("x"), Int(1)>>))>>))>>}
    IN {Dict(<<KV("A", a)>> \o b) : a \in As, b \in Bs}

NextDereference == CallDereference(SchemaTrees(MaxDepth), DefinitionMaps)

SpecDereference == Init /\ [][NextDereference]_vars

\* the value is a reference object
IsReference(x) == x.tag = "dict" /\ DictHas(x.kv, Str("$ref"))

\* every reference of the tree, and of the targets it reaches, has a target
RECURSIVE Resolvable(_, _)
Resolvable(x, definitions) ==
    LET all(children) == \A c \in children : Resolvable(c, definitions)
        name == SplitLast(DictGet(x.kv, Str("$ref"), None).s, "/")
    IN CASE IsReference(x) ->
              /\ DictHas(definitions.kv, Str(name))
              /\ Resolvable(DictGet(definitions.kv, Str(name), None), definitions)
         [] x.tag = "dict" -> all({x.kv[i].v : i \in 1..Len(x.kv)})
         [] x.tag = "list" -> all({x.items[i] : i \in 1..Len(x.items)})
         [] OTHER -> TRUE

\* the tree with every reference object, at any depth, replaced by its
\* fully inlined target
RECURSIVE Inlined(_, _)
Inlined(x, definitions) ==
    LET name == SplitLast(DictGet(x.kv, Str("$ref"), None).s, "/")
        target == IF IsReference(x)
                  THEN DictGet(definitions.kv, Str(name), None) ELSE x
        children(y) ==
            CASE y.tag = "dict" ->
                   Dict([i \in 1..Len(y.kv) |->
                           [k |-> y.kv[i].k, v |-> Inlined(y.kv[i].v, definitions)]])
              [] y.tag = "list" ->
                   List([i \in 1..Len(y.items) |-> Inlined(y.items[i], definitions)])
              [] OTHER -> y
    IN IF IsReference(x) THEN Inlined(target, definitions) ELSE children(x)

Dereferenced ==
    /\ ret.op = "Reference.dereference"
    /\ Resolvable(ret.schema, ret.definitions)

\* C13: for every schema tree, a tree that is one reference at its root
\* included, and every definitions map that has a target for each
\* reference and no cycle, Reference.dereference returns a tree that has no
\* reference object at any depth: each is replaced by its fully inlined
\* target.
C13_NoReferenceLeft ==
    Dereferenced =>
      /\ Refs(ret.result) = {}
      /\ ret.result = Inlined(ret.schema, ret.definitions)

\* the same when neither the tree itself nor a definition is a reference
\* object: the references under the root are all inlined
C13_NoReferenceLeftUnderRoot ==
    LET direct(definitions) ==
            \A i \in 1..Len(definitions.kv) : ~IsReference(definitions.kv[i].v)
    IN Dereferenced /\ ~IsReference(ret.schema) /\ direct(ret.definitions) =>
         /\ Refs(ret.result) = {}
         /\ ret.result = Inlined(ret.schema, ret.definitions)

----------------------------------------------------------------------------
(* Choice fields *)

\* choices given as values are their own display names
Plain(values) == [i \in 1..Len(values) |-> [k |-> values[i], v |-> values[i]]]

\* the choices of test_choice_field
ChoiceLists ==
    { Plain(<<Str("A"), Str("B"), Str("C")>>),
      <<[k |-> Str("A"), v |-> Int(1)], [k |-> Str("B"), v |-> Int(2)]>>,
      Plain(<<Str("X"), Str("Y"), Int(4)>>),
      <<[k |-> Str("X"), v |-> Str("x")], [k |-> Str("Y"), v |-> Str("y")],
        [k |-> Int(4), v |-> Str("4")]>> }

\* class ChoiceSerializer(serializers.Serializer) with up to MaxFields
\* choice fields
ChoiceSerializers ==
    LET declarations ==
            [kind : {"ChoiceField", "MultipleChoiceField"}, choices : ChoiceLists]
    IN UNION {{SerializerClass("ChoiceSerializer", Str("Choices."),
                 [i \in 1..n |->
                    ChoiceField(DeclaredNames[i], ds[i].kind, TRUE, ds[i].choices)])
               : ds \in [1..n -> declarations]}
              : n \in 1..MaxFields}

NextChoice ==
    \/ SetAttr(Named({""}, "response_schema", ChoiceSerializers))
    \/ DelAttr
    \/ CallToModel

SpecChoice == Init /\ [][NextChoice]_vars

\* schema.pop("definitions"), then Reference.dereference(schema, definitions)
DereferencedSchema(sch) ==
    dereference(Dict(DictWithout(sch.kv, Str("definitions"))),
                DictGet(sch.kv, Str("definitions"), Dict(<<>>)).kv)

----------------------------------------------------------------------------
(* Routes of a document *)

\* setattr for every <<name, value>> of a sequence, in order
RECURSIVE WithAttrs(_)
WithAttrs(pairs) ==
    IF pairs = <<>> THEN NoAttrs
    ELSE setattr(WithAttrs(SubSeq(pairs, 1, Len(pairs) - 1)),
                 pairs[Len(pairs)][1], pairs[Len(pairs)][2])

\* class UsersView(View): djagger_exclude = False; response_schema = UserOut
\*     def get(self, request): ...
DocumentedView ==
    ClassView({"get"}, WithAttrs(<<<<"djagger_exclude", Bool(FALSE)>>,
                                   <<"response_schema", UserOut>>>>))

\* a view that only implements head
HeadView == ClassView({"head"}, WithAttrs(<<<<"response_schema", UserOut>>>>))

\* an excluded view whose tags are not a list
ExcludedView ==
    ClassView({"get"}, WithAttrs(<<<<"djagger_exclude", Bool(TRUE)>>,
                                   <<"tags", Str("users")>>,
                                   <<"response_schema", UserOut>>>>))

\* a view whose get_tags are not a list, with a post as it should be
WrongTagsView ==
    ClassView({"get", "post"}, WithAttrs(<<<<"get_tags", Str("users")>>,
                                           <<"response_schema", UserOut>>>>))

\* a view with a mapping as the body of its post
BodyView ==
    ClassView({"post"}, WithAttrs(<<<<"post_body_params", BodyMeta>>,
                                    <<"response_schema", UserOut>>>>))

\* @schema(methods=["GET"]) def list_items(request): ...  without responses
UndocumentedView ==
    [list_items EXCEPT !.djagger_http_methods = List(<<"GET">>)]

RouteHandlers ==
    {DocumentedView, HeadView, ExcludedView, WrongTagsView, BodyView,
     UndocumentedView}

NextRoutes ==
    \/ AddRoute(RouteHandlers, RouteNames)
    \/ CallOpenapiGenerate
    \/ CallGenerate

SpecRoutes == Init /\ [][NextRoutes]_vars

\* the last call was Document.generate, of openapi.py or of swagger.py
GeneratedAny == ret.op \in {"openapi.Document.generate", "Document.generate"}

\* the positions of the url patterns whose view has a truthy djagger_exclude
ExcludedRoutes(url_patterns) ==
    {i \in 1..Len(url_patterns) :
        Truthy(getattr(url_patterns[i].view, "djagger_exclude", Bool(FALSE)))}

\* Path.create of the view of a url pattern raises, in the generator of
\* the last call
PathRaises(i) ==
    IF ret.op = "Document.generate"
    THEN IsRaise(SwaggerPath_create(ret.url_patterns[i].view, uuid4(ret.run, i)))
    ELSE \E v \in {ret.url_patterns[i].view, routes[i].view} :
            IsRaise(Path_create(v).result)

\* C15: in both generators, a route whose view has a truthy API-level
\* djagger_exclude is not in the paths of the document, unless another
\* route of the same name is there for a view that is not excluded; no
\* Path is built for it: its view is as it was, and an error comes from
\* the Path of a view that is not excluded only.
C15_ExcludedRouteAbsent ==
    GeneratedAny =>
      LET excluded_routes == ExcludedRoutes(ret.url_patterns)
          others == (1..Len(ret.url_patterns)) \ excluded_routes
      IN /\ ret.result.tag = "Document" =>
              KeySet(ret.result.paths)
                \subseteq {Str("/" \o ret.url_patterns[j].route) : j \in others}
         /\ IsRaise(ret.result) => \E j \in others : PathRaises(j)
         /\ \A i \in excluded_routes : routes[i].view = ret.url_patterns[i].view

\* a document of an excluded view that is not well-formed and of a
\* documented view: the one path is the documented view's
C15_Witness ==
    /\ ret.op = "openapi.Document.generate"
    /\ Len(ret.url_patterns) = 2
    /\ ret.url_patterns[1].view = ExcludedView
    /\ ret.url_patterns[2].view = DocumentedView
    /\ ret.url_patterns[1].route # ret.url_patterns[2].route
    /\ ret.result.tag = "Document"
    /\ KeySet(ret.result.paths) = {Str("/" \o ret.url_patterns[2].route)}

----------------------------------------------------------------------------
(* Routes without operations *)

\* the routes of views that are not excluded, no other url pattern having
\* their name
PlainRoutes(url_patterns) ==
    {i \in (1..Len(url_patterns)) \ ExcludedRoutes(url_patterns) :
        \A j \in 1..Len(url_patterns) :
           url_patterns[j].route = url_patterns[i].route => j = i}

\* the route of a url pattern is a key of the paths of the document
Present(i) == Str("/" \o ret.url_patterns[i].route) \in KeySet(ret.result.paths)

\* the Path of the view of a url pattern has an operation of one of the
\* methods
HasOperation(i, methods) ==
    LET has(path) == \E m \in methods : path[m] # None
    IN has(Path_create(ret.url_patterns[i].view).result)

GeneratedOpenapi ==
    /\ ret.op = "openapi.Document.generate"
    /\ ret.result.tag = "Document"

\* C16: in a document of openapi's Document.generate, a route of a view
\* that is not excluded is in the paths if and only if the Path of the
\* view has at least one operation, of any HTTP method: head and options
\* count.
C16_PresentIffAnyOperation ==
    GeneratedOpenapi =>
      \A i \in PlainRoutes(ret.url_patterns) :
         Present(i) <=> HasOperation(i, HttpMethodValues)

\* what holds instead: the route is in the paths if and only if the Path
\* has an operation of get, post, put, patch or delete
C16_PresentIffOneOfFive ==
    GeneratedOpenapi =>
      \A i \in PlainRoutes(ret.url_patterns) :
         Present(i) <=> HasOperation(i, {"get", "post", "put", "patch", "delete"})

----------------------------------------------------------------------------
(* The exclude check of an operation *)

\* exclude flags of two methods, and attributes that are not well-formed:
\* tags that are a string, a body that is a string, a body that is a
\* mapping, a response mapping with a key that is not a string
ExcludeChoices ==
    Named({"get", "post"}, "djagger_exclude", {Bool(TRUE), Bool(FALSE)})
    \cup Named({""}, "tags", {Str("users")})
    \cup Named({"get"}, "body_params", {Str("UserOut"), BodyMeta})
    \cup Named({""}, "response_schema", {ResponsesInt, UserOut})

NextExclude ==
    \/ SetAttr(ExcludeChoices)
    \/ DelAttr
    \/ CallOperationFrom

SpecExclude == Init /\ [][NextExclude]_vars

\* the last call was Operation._from for a method V with a truthy
\* V_djagger_exclude
BuiltExcluded ==
    /\ ret.op = "Operation._from"
    /\ Truthy(getattr(ret.view,
                      to_djagger_attribute(ret.http_method).DJAGGER_EXCLUDE,
                      Bool(FALSE)))

\* C17: when V_djagger_exclude is truthy, Operation._from gives no
\* operation and no error for V, whatever the other attributes of the
\* handler are, and leaves the handler as it was.
C17_ExcludeFirst ==
    BuiltExcluded => ret.result = None /\ view = ret.view

\* an excluded operation of a handler whose other attribute makes the
\* build of the operation raise, or change the handler, when the exclude
\* flag is taken away
C17_Witness ==
    LET unflagged(v) ==
            [v EXCEPT !.attrs =
               delattr(@, to_djagger_attribute(ret.http_method).DJAGGER_EXCLUDE)]
        made(out) == IsRaise(out.result) \/ out.view # unflagged(ret.view)
    IN /\ BuiltExcluded
       /\ ret.result = None
       /\ made(Operation_from(unflagged(ret.view), ret.http_method))

----------------------------------------------------------------------------
(* Handlers after a build *)

\* bodies of two methods, as a model and as a mapping, and a response
BuildChoices ==
    Named({"get", "post"}, "body_params", {UserOut, BodyMeta})
    \cup Named({""}, "response_schema", {UserOut, TeamOut})

NextBuild ==
    \/ SetAttr(BuildChoices)
    \/ DelAttr
    \/ DefineMethod
    \/ CallOperationFrom
    \/ CallPathCreate

SpecBuild == Init /\ [][NextBuild]_vars

\* the last call was a build of an operation or of a path
Built_ == ret.op \in {"Operation._from", "Path.create"}

\* the outcome of the build of the last call, made once more on the
\* handler as the call left it
Rebuilt ==
    IF ret.op = "Operation._from"
    THEN Operation_from(view, ret.http_method).result
    ELSE Path_create(view).result

\* C18: a build of an operation or of a path leaves every attribute of the
\* handler, and every value an attribute holds, as it was before the
\* build; the same build made once more gives an equal result.
C18_HandlerUnchanged ==
    Built_ => view = ret.view /\ Rebuilt = ret.result

\* the same for the handlers whose body attributes are not mappings
C18_UnchangedWithoutBodyMapping ==
    LET plain(v) ==
            \A n \in {"get_body_params", "post_body_params"} :
               ~isinstance(getattr(v, n, None), {"dict"})
    IN Built_ /\ plain(ret.view) => view = ret.view /\ Rebuilt = ret.result

----------------------------------------------------------------------------
(* Errors of one operation *)

\* the operations of get, post, put, patch and delete that can be built
\* for the class of a url pattern: the method and the operation
BuildableOperations(v) ==
    {[method |-> m, operation |-> Operation_from(v, m).result] :
        m \in {"get", "post", "put", "patch", "delete"} \cap v.methods}
    \ {[method |-> m, operation |-> x] :
        m \in HttpMethodValues, x \in {None, Raise("AssertionError"),
                                       Raise("TypeError"), Raise("ValueError"),
                                       Raise("ValidationError"),
                                       Raise("AttributeError"), Raise("KeyError")}}

\* C19: an operation whose extraction raises is the only thing left out:
\* openapi's Document.generate still returns a document, and the document
\* holds, under the route of every view that is not excluded, every
\* operation of the view that can be built.
C19_OnlyTheRaisingVerbSkipped ==
    ret.op = "openapi.Document.generate" =>
      /\ ret.result.tag = "Document"
      /\ \A i \in PlainRoutes(ret.url_patterns) :
            \A b \in BuildableOperations(ret.url_patterns[i].view) :
               /\ Present(i)
               /\ DictGet(DictGet(ret.result.paths.kv,
                                  Str("/" \o ret.url_patterns[i].route),
                                  Dict(<<>>)).kv,
                          Str(b.method), None) = b.operation

\* what holds instead: the error of the first operation that raises is the
\* outcome of Document.generate, and a document is returned when no
\* operation of a view that is not excluded raises
C19_FirstErrorIsRaised ==
    ret.op = "openapi.Document.generate" =>
      (IsRaise(ret.result)
         <=> \E i \in (1..Len(ret.url_patterns)) \ ExcludedRoutes(ret.url_patterns) :
                PathRaises(i))

----------------------------------------------------------------------------
(* Two runs of the generator *)

\* a step from the outcome of one run of swagger's Document.generate to
\* the outcome of the next run over the same url patterns
NextRun ==
    /\ ret.op = "Document.generate"
    /\ ret'.op = "Document.generate"
    /\ ret'.url_patterns = ret.url_patterns

\* C20: two runs of Document.generate over the same url patterns, with the
\* same handlers, return equal documents: the same paths, definition
\* names, reference strings and order of fields.
C20_RunsAgree == [][NextRun => ret'.result = ret.result]_vars

\* what holds instead: the two runs raise the same error, or return
\* documents of the same routes with as many definitions; and equal
\* documents when there are no definitions
C20_RunsAgreeOnRoutes ==
    [][NextRun =>
         IF IsRaise(ret.result) THEN ret'.result = ret.result
         ELSE /\ ret'.result.tag = "Document"
              /\ KeySet(ret'.result.paths) = KeySet(ret.result.paths)
              /\ Len(ret'.result.definitions.kv) = Len(ret.result.definitions.kv)
              /\ ret.result.definitions.kv = <<>> => ret'.result = ret.result]_vars

----------------------------------------------------------------------------
(* The remaining fields of an operation *)

ServersA == List(<<Dict(<<KV("url", Str("https://example.org"))>>)>>)
SecurityA == List(<<Dict(<<KV("security1", List(<<Str("value1")>>))>>)>>)
DocsA == Dict(<<KV("url", Str("https://example.org/docs"))>>)

\* operation_id, deprecated, security, servers and external_docs, at the
\* API level and for GET
FieldChoices ==
    Named({"", "get"}, "operation_id", {TextA})
    \cup Named({"", "get"}, "deprecated", {Bool(TRUE)})
    \cup Named({"", "get"}, "security", {SecurityA})
    \cup Named({"", "get"}, "servers", {ServersA})
    \cup Named({"", "get"}, "external_docs", {DocsA})

NextFields ==
    \/ SetAttr(FieldChoices)
    \/ DelAttr
    \/ CallOperationFrom

SpecFields == Init /\ [][NextFields]_vars

\* what the extractor of each of the five fields resolves for a handler
ResolvedFields(v, http_method) ==
    [operationId |-> _extract_operation_id(v, http_method),
     deprecated |-> _extract_deprecated(v, http_method),
     security |-> _extract_security(v, http_method),
     servers |-> _extract_servers(v, http_method),
     externalDocs |-> _extract_external_docs(v, http_method)]

\* a field left absent: None, or the False that deprecated defaults to
Absent(x) == x \in {None, Bool(FALSE)}

\* C21: for every handler and verb, the Operation that Operation._from
\* returns has operationId, deprecated, security, servers and externalDocs
\* each set to the value resolved from the handler (operation-level, else
\* API-level), and absent when the handler has neither attribute: a handler
\* with deprecated = True gives a deprecated operation, a handler with
\* servers gives an operation with those servers.
C21_FieldsResolved ==
    Built =>
      LET resolved == ResolvedFields(ret.view, ret.http_method)
      IN \A f \in DOMAIN resolved :
            IF resolved[f] = None THEN Absent(ret.result[f])
            ELSE ret.result[f] = resolved[f]

\* What holds for C21: of the five fields Operation._from resolves the
\* operationId only; deprecated, security, servers and externalDocs keep
\* the defaults of a new Operation whatever the handler declares
C21_OnlyOperationIdResolved ==
    Built =>
      /\ ret.result.operationId
           = ResolvedFields(ret.view, ret.http_method).operationId
      /\ ret.result.deprecated = Bool(FALSE)
      /\ ret.result.security = None
      /\ ret.result.servers = None
      /\ ret.result.externalDocs = None

----------------------------------------------------------------------------
(* The description of an operation *)

\* class UserView with a get method; the class and the method each with
\* or without a docstring
DescribedViews ==
    { [UserView EXCEPT !.doc = doc, !.methods = {"get"}, !.docs = docs]
        : doc \in {None, Str("The users of the shop.")},
          docs \in {NoAttrs, [m \in {"get"} |-> Str("Every user, by name.")]} }

InitDescription ==
    /\ view \in DescribedViews
    /\ routes = <<>>
    /\ ret = NoCall

NextDescription ==
    \/ SetAttr(Named({"", "get"}, "description", {TextA, TextB}))
    \/ DelAttr
    \/ CallOperationFrom

SpecDescription == InitDescription /\ [][NextDescription]_vars

\* C22: the description of an operation is the operation-level description
\* attribute, else the API-level description attribute, else the docstring
\* of the handler's method for the verb if it has one, else the handler's
\* own docstring, else the empty string; it is never None.
C22_DescriptionOrder ==
    Built =>
      LET v == ret.view
          own == to_djagger_attribute(ret.http_method).DESCRIPTION
          api == view_attrs.DESCRIPTION
      IN ret.result.description =
           IF hasattr(v, own) THEN v.attrs[own]
           ELSE IF hasattr(v, api) THEN v.attrs[api]
           ELSE IF ret.http_method \in DOMAIN v.docs THEN v.docs[ret.http_method]
           ELSE IF v.doc # None THEN v.doc
           ELSE Str("")

\* What holds for C22: the description is the operation-level attribute,
\* else the API-level one, else the handler's own __doc__, which is None
\* for a handler without a docstring; the docstring of the method is never
\* read
C22_DescriptionOrDocstringOfHandler ==
    Built =>
      ret.result.description =
        getattr(ret.view, to_djagger_attribute(ret.http_method).DESCRIPTION,
                getattr(ret.view, view_attrs.DESCRIPTION, ret.view.doc))

----------------------------------------------------------------------------
(* A field declared required and with a default *)

\* the declarations of a field as the converter can meet them: `required`
\* and `default` are two attributes of a field object, and a field has both
\* when its required is set after its construction with a default (or when
\* DRF's assertions are compiled away)
AnyDeclarations ==
    [kind : {"CharField", "IntegerField"}, required : BOOLEAN,
     default : {Empty, Int(0)}]

\* class ProfileSerializer(serializers.Serializer) with up to MaxFields
\* fields of any declaration
AnySerializers ==
    UNION {{SerializerClass("ProfileSerializer", Str("A profile."),
                            [i \in 1..n |-> Declared(DeclaredNames[i], ds[i])])
            : ds \in [1..n -> AnyDeclarations]}
           : n \in 0..MaxFields}

NextDeclaration ==
    \/ SetAttr(Named({""}, "response_schema", AnySerializers))
    \/ DelAttr
    \/ CallToModel

SpecDeclaration == Init /\ [][NextDeclaration]_vars

\* the fields of a serializer that are required and have a default
RequiredWithDefault(s) ==
    {i \in 1..Len(s.fields) :
       s.fields[i].required /\ s.fields[i].default # Empty}

\* C23: converting a serializer in which a field is declared both required
\* and with a default value fails with an error; it never keeps one of the
\* two settings and yields a schema.
C23_RequiredWithDefaultFails ==
    ret.op = "to_model" /\ RequiredWithDefault(ret.s) # {}
      => IsRaise(ret.result)

\* What holds for C23: the conversion yields a schema in which such a field
\* is required and its default is dropped
C23_RequiredKeptDefaultDropped ==
    ret.op = "to_model" =>
      \A i \in RequiredWithDefault(ret.s) :
         LET name == Str(ret.s.fields[i].name)
             properties == DictGet(ret.result.kv, Str("properties"), Dict(<<>>))
         IN /\ ret.result.tag = "dict"
            /\ name \in RequiredSet(ret.result)
            /\ DictHas(properties.kv, name)
            /\ ~DictHas(DictGet(properties.kv, name, Dict(<<>>)).kv,
                        Str("default"))

----------------------------------------------------------------------------
(* References without a target *)

\* the value is a reference whose name the definitions do not have
Missing(x, definitions) ==
    IF IsReference(x)
    THEN ~DictHas(definitions.kv,
                  Str(ref_name(DictGet(x.kv, Str("$ref"), None).s)))
    ELSE FALSE

\* C24: dereferencing a schema that holds a reference whose target name is
\* missing from the definitions ends in an error; it never returns a schema
\* in which the reference was replaced by an empty or partial object.
C24_MissingTargetRaises ==
    ret.op = "Reference.dereference"
    /\ ~Resolvable(ret.schema, ret.definitions)
      => IsRaise(ret.result)

\* What holds for C24: a schema is returned, and in it every value of the
\* root that is a reference without a target is the empty dict
C24_MissingTargetBecomesEmpty ==
    ret.op = "Reference.dereference" =>
      /\ ~IsRaise(ret.result)
      /\ \A i \in 1..Len(Children(ret.schema)) :
            Missing(Children(ret.schema)[i], ret.definitions)
              => Children(ret.result)[i] = Dict(<<>>)

----------------------------------------------------------------------------
(* The schema decorator *)

\* the methods lists of a decorator: up to MaxMethods entries, in upper or
\* lower case, some of them no HTTP method
RECURSIVE MethodLists(_)
MethodLists(n) ==
    IF n = 0 THEN {<<>>}
    ELSE MethodLists(n - 1)
         \cup {Append(ms, m) : ms \in {l \in MethodLists(n - 1) : Len(l) = n - 1},
                               m \in {"GET", "post", "wrong"}}

\* the keywords of a decorator: an API-level attribute, an operation-level
\* one, and a name that is no attribute
Keywords ==
    {[n \in names |-> IF n = "summary" THEN TextA ELSE TextB]
       : names \in SUBSET {"summary", "get_summary", "colour"}}

NextDecorator == CallSchema(MethodLists(MaxMethods), Keywords)

SpecDecorator == Init /\ [][NextDecorator]_vars

\* the recognised attribute names: K and V_K for every key K and verb V
Recognised ==
    {AttrName(pre, view_attrs[k])
       : pre \in {""} \cup HttpMethodValues, k \in DOMAIN view_attrs}

\* every entry of the methods list, lower-cased, is an HTTP verb
ValidMethods(methods) ==
    \A i \in 1..Len(methods) : lower(methods[i]) \in HttpMethodValues

\* C25: applying the schema decorator with a methods list and keywords: if
\* every entry of methods, lower-cased, is an HTTP verb, the returned
\* function has djagger_http_methods equal to methods as given, every
\* keyword that is a recognised attribute name set to its value, and no
\* unrecognised keyword set; if some entry is not a verb, ValueError is
\* raised.
C25_SchemaDecorator ==
    ret.op = "schema" =>
      IF ValidMethods(ret.methods)
      THEN /\ ret.result # Raise("ValueError")
           /\ ret.result.djagger_http_methods = List(ret.methods)
           /\ \A k \in DOMAIN ret.attrs \cap Recognised :
                 hasattr(ret.result, k) /\ ret.result.attrs[k] = ret.attrs[k]
           /\ \A k \in DOMAIN ret.attrs \ Recognised :
                 /\ hasattr(ret.result, k) <=> hasattr(ret.view, k)
                 /\ getattr(ret.result, k, None) = getattr(ret.view, k, None)
      ELSE ret.result = Raise("ValueError")

\* C25 happens: a decorator with methods in both cases, a recognised and an
\* unrecognised keyword returns the function with the methods as given and
\* the recognised keyword only
C25_Witness ==
    /\ ret.op = "schema"
    /\ ret.methods = <<"GET", "post">>
    /\ DOMAIN ret.attrs = {"get_summary", "colour"}
    /\ ret.result.djagger_http_methods = List(<<"GET", "post">>)
    /\ DOMAIN ret.result.attrs = {"get_summary"}
    /\ view = ret.result

\* C25 happens for a wrong method: ValueError
C25_WitnessOfValueError ==
    /\ ret.op = "schema"
    /\ ret.methods = <<"GET", "wrong">>
    /\ ret.result = Raise("ValueError")

----------------------------------------------------------------------------
(* The options method of a class *)

NextOptions ==
    \/ SetAttr(Named({"", "options"}, "response_schema", {UserOut, ErrorOut}))
    \/ DelAttr
    \/ DefineMethod
    \/ CallPathCreate

SpecOptions == Init /\ [][NextOptions]_vars

\* Path.create returned a Path for a class that has an options method,
\* its own or the one it inherits
CreatedWithOptions == Created /\ "options" \in ret.view.methods

\* C26: for a class that has an options method, Path.create includes an
\* options operation only if the handler has an explicit options response
\* schema attribute; a handler that merely inherits the default options
\* method and sets no options response schema has no options operation.
C26_OptionsOnlyWithResponseSchema ==
    CreatedWithOptions =>
      (ret.result.options # None
         => hasattr(ret.view, to_djagger_attribute("options").RESPONSE_SCHEMA))

\* What holds for C26: options is built like every other verb; a class
\* with an options method has an options operation whether or not it has an
\* options response schema, and without any response schema the operation
\* has no responses
C26_OptionsLikeEveryVerb ==
    CreatedWithOptions =>
      /\ ret.result.options.tag = "Operation"
      /\ ret.view.attrs = NoAttrs => ret.result.options.responses = Dict(<<>>)

----------------------------------------------------------------------------
(* Operations without responses, by the style of the handler *)

\* def list(self, request) of class UserViewSet, with a docstring and the
\* attributes set on it
ListAction(attrs) ==
    [list_items EXCEPT !.name = "list", !.module = "users.views",
                       !.doc = Str("Every user."), !.attrs = attrs]

\* def create(self, request) of class UserViewSet
CreateAction ==
    [list_items EXCEPT !.name = "create", !.module = "users.views",
                       !.doc = None]

\* UserViewSet.as_view({'get': 'list', 'post': 'create', 'trace': 'probe'}):
\* the dispatcher function of a view set, with its `actions` and its `cls`
Dispatcher(attrs) ==
    [list_items EXCEPT
       !.name = "UserViewSet", !.module = "users.views", !.doc = None,
       !.actions = Dict(<<KV("get", Str("list")), KV("post", Str("create")),
                          KV("trace", Str("probe"))>>),
       !.cls = [name |-> "UserViewSet",
                methods |-> [a \in {"list", "create"} |->
                               IF a = "list" THEN ListAction(attrs)
                               ELSE CreateAction]]]

\* @schema(methods=["GET", "post"]) def list_items(request)
Decorated == [list_items EXCEPT !.djagger_http_methods = List(<<"GET", "post">>)]

\* a class, a decorated function, and the dispatchers of a view set whose
\* list action has no attributes, or a summary and a response schema
StyledViews ==
    {ClassView({"get", "post"}, NoAttrs), Decorated, Dispatcher(NoAttrs),
     Dispatcher(WithAttrs(<<<<"summary", TextB>>,
                            <<"response_schema", TeamOut>>>>))}

InitStyles ==
    /\ view \in StyledViews
    /\ routes = <<>>
    /\ ret = NoCall

NextStyles ==
    \/ SetAttr(Named({"", "get"}, "response_schema", {UserOut, TeamOut})
               \cup Named({""}, "summary", {TextA})
               \cup Named({"get"}, "djagger_exclude", {Bool(TRUE)}))
    \/ DelAttr
    \/ CallPathCreate

SpecStyles == InitStyles /\ [][NextStyles]_vars

\* Path.create returned a Path
CreatedPath == ret.op = "Path.create" /\ ret.result.tag = "Path"

\* the verbs that a handler declares: the methods of a class, the keys of
\* `actions` that are verbs, the entries of djagger_http_methods
DeclaredVerbs(v) ==
    IF v.kind = "class" THEN v.methods
    ELSE {m \in HttpMethodValues :
            \/ IF v.actions = None THEN FALSE
               ELSE DictHas(v.actions.kv, Str(m))
            \/ IF v.djagger_http_methods = None THEN FALSE
               ELSE \E i \in 1..Len(v.djagger_http_methods.items) :
                       lower(v.djagger_http_methods.items[i]) = m}

\* C27: whenever Operation._from returns an Operation whose responses are
\* empty, the verb is still in the Path, for classes, dispatchers with
\* actions and decorated functions alike; a verb is absent from the Path
\* only when Operation._from returned no operation.
C27_AbsentOnlyWhenExcluded ==
    CreatedPath =>
      \A V \in DeclaredVerbs(ret.view) :
         ret.result[V] = None <=> Operation_from(ret.view, V).result = None

\* What holds for C27: a class keeps an operation without responses; a
\* function, with actions or decorated, loses it
C27_FunctionsDropEmptyResponses ==
    CreatedPath =>
      \A V \in DeclaredVerbs(ret.view) :
         LET operation == Operation_from(ret.view, V).result
             empty == IF operation = None THEN FALSE
                      ELSE ~Truthy(operation.responses)
         IN ret.result[V] = None
              <=> \/ operation = None
                  \/ ret.view.kind = "function" /\ empty

----------------------------------------------------------------------------
(* The actions of a view set *)

\* Path.create returned for the dispatcher of a view set
CreatedOfActions ==
    /\ ret.op = "Path.create"
    /\ ret.view.kind = "function"
    /\ ret.view.actions # None

\* the callable that `actions` names for a verb: the method of that name of
\* the class the dispatcher refers to
ActionOf(v, V) ==
    LET name == DictGet(v.actions.kv, Str(V), None)
    IN IF v.cls = None THEN v
       ELSE IF name.s \in DOMAIN v.cls.methods THEN v.cls.methods[name.s]
       ELSE v

\* the keys of `actions` that are HTTP verbs
VerbsOfActions(v) == {V \in HttpMethodValues : DictHas(v.actions.kv, Str(V))}

\* C28: for a function-style handler with a verb-to-action mapping, the
\* operation of each declared verb is built from the callable that the
\* mapping names, looked up on the referenced class, so an attribute set on
\* the action overrides the same attribute of the dispatcher; keys of the
\* mapping that are not HTTP verbs are skipped without error.
C28_BuiltFromAction ==
    CreatedOfActions =>
      /\ ret.result.tag = "Path"
      /\ \A V \in VerbsOfActions(ret.view) :
            LET operation == Operation_from(ActionOf(ret.view, V), V).result
            IN /\ ret.result[V] # None => ret.result[V] = operation
               /\ IF operation = None THEN TRUE
                  ELSE Truthy(operation.responses) => ret.result[V] = operation

\* What holds for C28: every operation is built from the dispatcher
\* function itself, whatever the action has; keys that are not HTTP verbs
\* are skipped without error
C28_BuiltFromDispatcher ==
    CreatedOfActions =>
      /\ ret.result.tag = "Path"
      /\ ret.result.trace = None
      /\ \A V \in VerbsOfActions(ret.view) :
            ret.result[V] # None
              => ret.result[V] = Operation_from(ret.view, V).result

----------------------------------------------------------------------------
(* The full paths of nested url patterns *)

\* path('users/', ...) and path('<int:pk>/', ...)
Patterns ==
    {URLPattern(RoutePattern("users/"), "users"),
     URLPattern(RoutePattern("<int:pk>/"), "detail")}

\* the pattern of an include() at nesting depth d, counted from the
\* innermost: re_path(r'^v1/', include(...)) inside path('api/', include(...))
IncludePattern(d) == IF d = 1 THEN RegexPattern("^v1/") ELSE RoutePattern("api/")

\* the url_patterns lists with includes nested d deep at most: up to two
\* entries, at most one of them an include, before or after a pattern
RECURSIVE UrlLists(_)
UrlLists(d) ==
    LET flat == {<<>>} \cup {<<p>> : p \in Patterns}
                \cup {<<p, q>> : p \in Patterns, q \in Patterns}
        includes == {URLResolver(IncludePattern(d), under)
                       : under \in UrlLists(d - 1)}
    IN IF d = 0 THEN flat
       ELSE flat \cup {<<r>> : r \in includes}
                 \cup {<<r, p>> : r \in includes, p \in Patterns}
                 \cup {<<p, r>> : r \in includes, p \in Patterns}

\* the root resolvers
Resolvers == {URLResolver(RegexPattern("^/"), urls) : urls \in UrlLists(MaxDepth)}

NextUrls == CallListUrls(Resolvers)

SpecUrls == Init /\ [][NextUrls]_vars

\* for every url pattern under the list, in traversal order: the cleaned
\* concatenation of the prefix, the patterns of the resolvers that enclose
\* it, outermost first, and its own pattern
RECURSIVE FullPaths(_, _)
FullPaths(urls, prefix) ==
    LET own == get_pattern_str(Head(urls).pattern)
        first == IF Head(urls).tag = "URLResolver"
                 THEN FullPaths(Head(urls).url_patterns, prefix \o own)
                 ELSE <<<<clean_regex_string(prefix \o own), Head(urls)>>>>
    IN IF urls = <<>> THEN <<>>
       ELSE first \o FullPaths(Tail(urls), prefix)

\* C29: list_urls returns, for every url pattern reachable from the
\* resolver and in traversal order, the full path formed by the prefixes of
\* all its enclosing resolvers, outermost first, and the pattern's own
\* path: a pattern that follows a nested resolver at the same level does
\* not inherit that resolver's prefix, and a pattern nested two or more
\* resolvers deep keeps every ancestor's prefix.
C29_FullPathOfEveryPattern ==
    ret.op = "list_urls"
      => ret.result = FullPaths(ret.resolver.url_patterns, "")

\* no pattern of the list follows a resolver, and no resolver of the list
\* is inside another resolver
RECURSIVE Flat(_, _)
Flat(urls, depth) ==
    \A i \in 1..Len(urls) :
       urls[i].tag = "URLResolver"
         => /\ depth = 0
            /\ \A j \in (i + 1)..Len(urls) : urls[j].tag = "URLResolver"
            /\ Flat(urls[i].url_patterns, depth + 1)

\* What holds for C29: the full paths are right when every include is at
\* the top level and no pattern follows an include; in every case there is
\* one entry per reachable pattern, in traversal order
C29_FullPathOfFlatPatterns ==
    ret.op = "list_urls" =>
      LET expected == FullPaths(ret.resolver.url_patterns, "")
      IN /\ Flat(ret.resolver.url_patterns, 0) => ret.result = expected
         /\ Len(ret.result) = Len(expected)
         /\ \A i \in 1..Len(expected) : ret.result[i][2] = expected[i][2]

----------------------------------------------------------------------------
(* Termination of dereferencing *)

\* {"type": "object", "properties": {"node": {"$ref": "#/definitions/A"}}},
\* a list with a reference, a schema without references, a reference
TerminationSchemas ==
    {Dict(<<KV("type", Str("object")),
            KV("properties", Dict(<<KV("node", Ref("A"))>>))>>),
     List(<<Ref("A"), StringSchema>>),
     StringSchema,
     Ref("A")}

\* a definition with a property that is a reference
WithProperty(name) ==
    Dict(<<KV("type", Str("object")),
           KV("properties", Dict(<<KV("next", Ref(name))>>))>>)

\* definitions maps without a cycle, with a definition that has a property
\* of its own type, with two definitions that have a property of each
\* other's type, and with definitions that are references to themselves or
\* to each other
TerminationDefinitions ==
    {Dict(<<KV("A", StringSchema)>>),
     Dict(<<KV("A", WithProperty("B")), KV("B", StringSchema)>>),
     Dict(<<KV("A", WithProperty("A"))>>),
     Dict(<<KV("A", WithProperty("B")), KV("B", WithProperty("A"))>>),
     Dict(<<KV("A", Ref("A"))>>),
     Dict(<<KV("A", Ref("B")), KV("B", Ref("A"))>>)}

NextTermination ==
    \/ StartDereference(TerminationSchemas, TerminationDefinitions)
    \/ StepDereference

\* a call that can take a step does take it
SpecTermination ==
    Init /\ [][NextTermination]_vars /\ WF_vars(StepDereference)

Running == ret.op = "dereference" /\ ret.run.status = "running"
Returned == ret.op = "dereference" /\ ret.run.status = "returned"
Overflown == ret.op = "dereference" /\ ret.run.status = "raised"

\* C30: document generation terminates for every finite route table, and
\* the call it makes for every schema with definitions, Reference.dereference,
\* terminates for every finite schema and definitions map, also when a
\* definition references itself or two definitions reference each other:
\* every call of dereference comes to return its schema.
C30_DereferenceReturns == Running ~> Returned

\* the names of the references strictly inside a value
RECURSIVE RefsInside(_)
RefsInside(x) ==
    UNION {(IF IsReference(Children(x)[i])
            THEN {ref_name(DictGet(Children(x)[i].kv, Str("$ref"), None).s)}
            ELSE {})
           \cup RefsInside(Children(x)[i]) : i \in 1..Len(Children(x))}

\* the names a run comes to look up: those inside the schema, and those
\* inside the definitions of such names, to any depth
RECURSIVE LookedUp(_, _, _)
LookedUp(names, definitions, n) ==
    LET inside == UNION {RefsInside(DictGet(definitions.kv, Str(name), Dict(<<>>)))
                           : name \in names}
    IN IF n = 0 THEN names
       ELSE LookedUp(names \cup inside, definitions, n - 1)

\* a definition that the run looks up has, inside it, a chain of
\* references that leads back to it
Recursive(obj, definitions) ==
    \E name \in LookedUp(RefsInside(obj), definitions, Len(definitions.kv)) :
       name \in LookedUp(RefsInside(DictGet(definitions.kv, Str(name), Dict(<<>>))),
                         definitions, Len(definitions.kv))

\* What holds for C30: every call ends, by returning or by RecursionError
C30_DereferenceEnds == Running ~> (Returned \/ Overflown)

\* What holds for C30: a call ends in RecursionError exactly when a
\* definition it looks up has a reference inside it that leads back to
\* it; every other call returns, and returns what the function yields
C30_OverflowIffRecursive ==
    /\ Overflown => Recursive(ret.schema, ret.definitions)
    /\ Returned =>
         /\ ~Recursive(ret.schema, ret.definitions)
         /\ ret.run.result = dereference(ret.schema, ret.definitions.kv)

====
